---- MODULE Spec2Model ----
(***************************************************************************)
(* A model of the pyspark-tutorial notebooks: the generic cast functions   *)
(* fix_dates / fix_types and the transformation pipeline (status, join,    *)
(* window, groupBy, crosstab) of the Data Transformation notebook.         *)
(*                                                                         *)
(* Strings are sequences of one-character strings, so that parsing         *)
(* (cast to integer, to_date with "yyyyMMdd"), suffix tests and comparison *)
(* are computed on the characters.  A cell is a tagged value               *)
(* [t |-> tag, v |-> value]; SQL NULL is the cell Null.  A DataFrame is    *)
(* [cols |-> names, types |-> declared types, rows |-> rows of cells].     *)
(***************************************************************************)
EXTENDS Integers, Sequences, FiniteSets, TLC

VARIABLES
    input,      \* cast stage: the DataFrame the caller passed first
    df,         \* cast stage: the DataFrame the generic function is applied to
    prev,       \* cast stage: the DataFrame before the last application
    hist,       \* cast stage: the functions applied so far, oldest first
    out,        \* the NOTE lines printed so far
    csvPolicy,  \* notebook: the rows of ./data/policy.csv
    csvClaims,  \* notebook: the rows of ./data/claims.csv
    pc,         \* notebook: the next cell to run
    policyDF,   \* notebook variables, Unset until a cell assigns them
    claimsDF,
    combinedDF,
    summary,
    sqlDF,      \* the variable df of the SparkSQL notebook
    shown,      \* the DataFrame the last show() displayed
    otherDF,    \* Explain Plan notebook: the table built by one select
    files,      \* Writing Data notebook: the files of each directory under ./data
    job,        \* Writing Data notebook: the write that is running, or Unset
    partitions, \* Writing Data notebook: the partitions of policyDF and claimsDF
    parquetDF,  \* Writing Data notebook: the table read back from parquet
    spark,      \* Introduction notebook: the session the variable spark holds
    stopped,    \* Introduction notebook: the sessions that have been stopped
    frames,     \* Introduction notebook: the variables df and over40
    ran,        \* Introduction notebook: the cell run last and how it ended
    ctabDF      \* the variable ctabDF of the crosstab rename cell

castVars == <<input, df, prev, hist>>

bookVars == <<csvPolicy, csvClaims, pc, policyDF, claimsDF, combinedDF, summary, sqlDF,
              shown>>

planVars == <<otherDF>>

writeVars == <<files, job, partitions, parquetDF>>

introVars == <<spark, stopped, frames, ran>>

tabVars == <<ctabDF>>

vars == <<input, df, prev, hist, out, csvPolicy, csvClaims, pc, policyDF, claimsDF,
          combinedDF, summary, sqlDF, shown, otherDF, files, job, partitions, parquetDF,
          spark, stopped, frames, ran, ctabDF>>

(***************************************************************************)
(* Bounds of the model.                                                    *)
(***************************************************************************)
MaxCastRows == 1
MaxApply == 2
MaxRows == 2

(***************************************************************************)
(* Characters and strings.                                                 *)
(***************************************************************************)
Digits == <<"0", "1", "2", "3", "4", "5", "6", "7", "8", "9">>

IsDigit(c) == \E i \in 1..10 : Digits[i] = c

DigitVal(c) == (CHOOSE i \in 1..10 : Digits[i] = c) - 1

AllDigits(s) == \A i \in 1..Len(s) : IsDigit(s[i])

RECURSIVE DigitsValue(_)
DigitsValue(s) ==
    IF s = <<>> THEN 0
    ELSE DigitsValue(SubSeq(s, 1, Len(s) - 1)) * 10 + DigitVal(s[Len(s)])

\* str.endswith(suffix)
EndsWith(s, suffix) ==
    /\ Len(s) >= Len(suffix)
    /\ SubSeq(s, Len(s) - Len(suffix) + 1, Len(s)) = suffix

\* The decimal text of a natural number, left-padded with "0" to w characters.
RECURSIVE Dec(_, _)
Dec(n, w) ==
    IF w <= 1 /\ n < 10 THEN <<Digits[n + 1]>>
    ELSE Dec(n \div 10, w - 1) \o <<Digits[(n % 10) + 1]>>

\* The characters of the data, in code-point order.
Alphabet ==
    <<" ", "+", "-", ".", "/", "0", "1", "2", "3", "4", "5", "6", "7", "8", "9",
      "A", "B", "C", "D", "E", "F", "G", "H", "I", "J", "K", "L", "M", "N", "O", "P", "Q",
      "R", "S", "T", "U", "V", "W", "X", "Y", "Z", "_",
      "a", "b", "c", "d", "e", "f", "g", "h", "i", "j", "k", "l", "m", "n", "o", "p", "q",
      "r", "s", "t", "u", "v", "w", "x", "y", "z", "~">>

CharOrd(c) == CHOOSE i \in 1..Len(Alphabet) : Alphabet[i] = c

Min(S) == CHOOSE x \in S : \A y \in S : x <= y

\* a < b for strings: by the first character that differs, a prefix first.
StrLess(a, b) ==
    LET n == IF Len(a) < Len(b) THEN Len(a) ELSE Len(b)
        diff == {i \in 1..n : a[i] # b[i]}
    IN  IF diff = {} THEN Len(a) < Len(b)
        ELSE CharOrd(a[Min(diff)]) < CharOrd(b[Min(diff)])

(***************************************************************************)
(* Cells.                                                                  *)
(***************************************************************************)
Null == [t |-> "null", v |-> 0]
StrCell(s) == [t |-> "string", v |-> s]
IntCell(n) == [t |-> "int", v |-> n]
DateCell(d) == [t |-> "date", v |-> d]   \* d = yyyy * 10000 + MM * 100 + dd

IsNull(c) == c.t = "null"

\* A cell whose computation raises SparkUpgradeException: every action that
\* computes it (show, collect, write) fails.
Failure == [t |-> "error", v |-> 0]

IntMax == 2147483647

\* Leading and trailing characters <= ' ' are skipped by the string-to-int cast.
RECURSIVE Trim(_)
Trim(s) ==
    IF s = <<>> THEN s
    ELSE IF s[1] = " " THEN Trim(Tail(s))
    ELSE IF s[Len(s)] = " " THEN Trim(SubSeq(s, 1, Len(s) - 1))
    ELSE s

\* Position of the first "." of s, or Len(s) + 1.
FirstDot(s) ==
    IF \E i \in 1..Len(s) : s[i] = "."
    THEN CHOOSE i \in 1..Len(s) : s[i] = "." /\ \A j \in 1..(i - 1) : s[j] # "."
    ELSE Len(s) + 1

\* cast(<string> as int): optional sign, digits, an optional fraction that is
\* truncated; anything else, or a value outside 32 bits, gives NULL.
ParseInt(s) ==
    LET t == Trim(s)
        signed == t # <<>> /\ t[1] \in {"-", "+"}
        body == IF signed THEN Tail(t) ELSE t
        k == FirstDot(body)
        whole == SubSeq(body, 1, k - 1)
        frac == SubSeq(body, k + 1, Len(body))
        n == IF signed /\ t[1] = "-" THEN 0 - DigitsValue(whole) ELSE DigitsValue(whole)
    IN  IF body = <<>> \/ ~AllDigits(whole) \/ ~AllDigits(frac) THEN Null
        ELSE IF n > IntMax \/ n < 0 - IntMax - 1 THEN Null
        ELSE IntCell(n)

\* Mutant of CastInt: every input is read as text, so a column that is already
\* integer is not kept.
CastIntTextOnly(cell, type) ==
    IF IsNull(cell) \/ type # "string" THEN Null ELSE ParseInt(cell.v)

\* F.col(c).cast(IntegerType()) on a column of the given declared type.
CastInt(cell, type) ==
    IF IsNull(cell) THEN Null
    ELSE IF cell = Failure THEN Failure
    ELSE IF type = "int" THEN cell
    ELSE IF type = "string" THEN ParseInt(cell.v)
    ELSE Null                        \* date -> int gives NULL

IsLeap(y) == (y % 4 = 0 /\ y % 100 # 0) \/ y % 400 = 0

DaysInMonth(y, m) ==
    IF m = 2 THEN (IF IsLeap(y) THEN 29 ELSE 28)
    ELSE IF m \in {4, 6, 9, 11} THEN 30 ELSE 31

\* The parser of Spark 3 (java.time) with "yyyyMMdd": the whole text is eight
\* digits naming a calendar date, else no result (Null).
NewParseDate(s) ==
    IF Len(s) # 8 \/ ~AllDigits(s) THEN Null
    ELSE LET y == DigitsValue(SubSeq(s, 1, 4))
             m == DigitsValue(SubSeq(s, 5, 6))
             d == DigitsValue(SubSeq(s, 7, 8))
         IN  IF y >= 1 /\ m \in 1..12 /\ d >= 1 /\ d <= DaysInMonth(y, m)
             THEN DateCell(y * 10000 + m * 100 + d)
             ELSE Null

\* The parser of Spark 2 (SimpleDateFormat, not lenient) with "yyyyMMdd": it
\* reads the date from the start of the text and ignores what follows it.  (The
\* data of the model has eight digits before the first other character, or no
\* date at its start at all.)
LegacyParseDate(s) ==
    IF Len(s) >= 8 /\ (Len(s) = 8 \/ ~IsDigit(s[9])) THEN NewParseDate(SubSeq(s, 1, 8))
    ELSE Null

\* to_date(<string>, "yyyyMMdd") under the default
\* spark.sql.legacy.timeParserPolicy = EXCEPTION: the date the parser of Spark 3
\* reads; when it reads none, NULL if the parser of Spark 2 reads none either,
\* and otherwise SparkUpgradeException.
ParseDate(s) ==
    IF ~IsNull(NewParseDate(s)) THEN NewParseDate(s)
    ELSE IF ~IsNull(LegacyParseDate(s)) THEN Failure
    ELSE Null

\* F.to_date(col, "yyyyMMdd"); the callers apply it to string columns only.
ToDate(cell, type) ==
    IF IsNull(cell) \/ type # "string" THEN Null ELSE ParseDate(cell.v)

(***************************************************************************)
(* Column names.                                                           *)
(***************************************************************************)
c_policy == <<"p", "o", "l", "i", "c", "y">>
c_make == <<"m", "a", "k", "e">>
c_vehicle_age == <<"v", "e", "h", "i", "c", "l", "e", "_", "a", "g", "e">>
c_sum_insured == <<"s", "u", "m", "_", "i", "n", "s", "u", "r", "e", "d">>
c_inception_date ==
    <<"i", "n", "c", "e", "p", "t", "i", "o", "n", "_", "d", "a", "t", "e">>
c_start_date == <<"s", "t", "a", "r", "t", "_", "d", "a", "t", "e">>
c_end_date == <<"e", "n", "d", "_", "d", "a", "t", "e">>
c_premium == <<"p", "r", "e", "m", "i", "u", "m">>
c_incident_date == <<"i", "n", "c", "i", "d", "e", "n", "t", "_", "d", "a", "t", "e">>
c_cost == <<"c", "o", "s", "t">>
c_status == <<"s", "t", "a", "t", "u", "s">>
c_policy_term == <<"p", "o", "l", "i", "c", "y", "_", "t", "e", "r", "m">>
c_total_premium == <<"t", "o", "t", "a", "l", "_", "p", "r", "e", "m", "i", "u", "m">>
c_policy_id == <<"p", "o", "l", "i", "c", "y", "_", "i", "d">>
c_total_insured == <<"t", "o", "t", "a", "l", "_", "i", "n", "s", "u", "r", "e", "d">>

DateSuffix == <<"_", "d", "a", "t", "e">>

(***************************************************************************)
(* DataFrames.                                                             *)
(***************************************************************************)
\* A function on 1..n as the sequence it is (an evaluated tuple).
AsSeq(f) == f \o <<>>

DataFrame(cols, types, rows) ==
    [cols |-> AsSeq(cols), types |-> AsSeq(types), rows |-> AsSeq(rows)]

\* The value of a notebook variable no cell has assigned yet.
Unset == [unset |-> TRUE]

\* Position of the column named name (column names are distinct).
ColIndex(d, name) == CHOOSE i \in 1..Len(d.cols) : d.cols[i] = name

HasCol(d, name) == \E i \in 1..Len(d.cols) : d.cols[i] = name

\* dict(df.dtypes)[column]
DType(d, name) == d.types[ColIndex(d, name)]

(***************************************************************************)
(* SQL three-valued logic: a comparison with NULL is "null".               *)
(***************************************************************************)
Eq3(a, b) ==
    IF IsNull(a) \/ IsNull(b) THEN "null" ELSE IF a = b THEN "true" ELSE "false"

\* Mutant of Le3: NULL is the smallest value, as it is in a sort.
Le3NullFirst(a, b) ==
    IF IsNull(a) THEN "true" ELSE IF IsNull(b) THEN "false"
    ELSE IF a.v <= b.v THEN "true" ELSE "false"

\* a <= b on integer or date cells.
Le3(a, b) ==
    IF IsNull(a) \/ IsNull(b) THEN "null" ELSE IF a.v <= b.v THEN "true" ELSE "false"

And3(x, y) ==
    IF x = "false" \/ y = "false" THEN "false"
    ELSE IF x = "null" \/ y = "null" THEN "null"
    ELSE "true"

\* a before b in ascending order; NULL sorts first.
CellLess(a, b) ==
    IF IsNull(a) THEN ~IsNull(b)
    ELSE IF IsNull(b) THEN FALSE
    ELSE IF a.t = "string" THEN StrLess(a.v, b.v)
    ELSE a.v < b.v

NewBusiness == <<"N", "e", "w", " ", "B", "u", "s", "i", "n", "e", "s", "s">>
Renewal == <<"R", "e", "n", "e", "w", "a", "l">>

\* Mutant of StatusWhen: null-safe equality, two NULLs count as equal.
StatusWhenNullSafe(start, inception) ==
    IF start = inception THEN StrCell(NewBusiness) ELSE StrCell(Renewal)

\* when(start_date == inception_date, "New Business").otherwise("Renewal")
StatusWhen(start, inception) ==
    IF Eq3(start, inception) = "true" THEN StrCell(NewBusiness) ELSE StrCell(Renewal)

\* CASE WHEN inception_date=start_date THEN 'New Business' ELSE 'Renewal' END
StatusCase(inception, start) ==
    CASE Eq3(inception, start) = "true" -> StrCell(NewBusiness)
      [] OTHER -> StrCell(Renewal)

\* A column expression of select()/withColumn(): what it computes from a row of d,
\* and the declared type of the result.
EvalExpr(d, e, row) ==
    CASE e.kind = "cast_int" -> CastInt(row[ColIndex(d, e.name)], DType(d, e.name))
      [] e.kind = "to_date" -> ToDate(row[ColIndex(d, e.name)], DType(d, e.name))
      [] e.kind = "status_when" ->
            StatusWhen(row[ColIndex(d, c_start_date)], row[ColIndex(d, c_inception_date)])
      [] e.kind = "status_case" ->
            StatusCase(row[ColIndex(d, c_inception_date)], row[ColIndex(d, c_start_date)])
      [] OTHER -> row[ColIndex(d, e.name)]

ExprType(d, e) ==
    CASE e.kind = "cast_int" -> "int"
      [] e.kind = "to_date" -> "date"
      [] e.kind \in {"status_when", "status_case"} -> "string"
      [] OTHER -> DType(d, e.name)

\* Mutant of Select: an item whose alias an earlier item has already is dropped,
\* a table has one column of a name.
SelectUniqueNames(d, sel) ==
    LET keep == SelectSeq([k \in 1..Len(sel) |-> k],
                          LAMBDA k : \A j \in 1..(k - 1) : sel[j].alias # sel[k].alias)
    IN  DataFrame([k \in 1..Len(keep) |-> sel[keep[k]].alias],
                  [k \in 1..Len(keep) |-> ExprType(d, sel[keep[k]])],
                  [r \in 1..Len(d.rows) |->
                      AsSeq([k \in 1..Len(keep) |-> EvalExpr(d, sel[keep[k]], d.rows[r])])])

\* Mutant of Select: an item overwrites the column an earlier item gave the same
\* alias, so a name has one column, with the values of its last item.
SelectOverwriting(d, sel) ==
    LET keep == SelectSeq([k \in 1..Len(sel) |-> k],
                          LAMBDA k : \A j \in 1..(k - 1) : sel[j].alias # sel[k].alias)
        same(k) == {j \in 1..Len(sel) : sel[j].alias = sel[keep[k]].alias}
        item(k) == sel[CHOOSE j \in same(k) : \A i \in same(k) : i <= j]
    IN  DataFrame([k \in 1..Len(keep) |-> sel[keep[k]].alias],
                  [k \in 1..Len(keep) |-> ExprType(d, item(k))],
                  [r \in 1..Len(d.rows) |->
                      AsSeq([k \in 1..Len(keep) |-> EvalExpr(d, item(k), d.rows[r])])])

\* df.select(sel): one output column per item, in the order of the list.
Select(d, sel) ==
    DataFrame([k \in 1..Len(sel) |-> sel[k].alias],
              [k \in 1..Len(sel) |-> ExprType(d, sel[k])],
              [r \in 1..Len(d.rows) |->
                  AsSeq([k \in 1..Len(sel) |-> EvalExpr(d, sel[k], d.rows[r])])])

\* Whether row a sorts before row b by the columns at positions keys, in turn.
RECURSIVE RowLess(_, _, _)
RowLess(keys, a, b) ==
    IF keys = <<>> THEN FALSE
    ELSE IF CellLess(a[Head(keys)], b[Head(keys)]) THEN TRUE
    ELSE IF CellLess(b[Head(keys)], a[Head(keys)]) THEN FALSE
    ELSE RowLess(Tail(keys), a, b)

\* row put into the sorted rows, after the rows it does not sort before.
InsertRow(keys, sorted, row) ==
    LET after == {i \in 1..Len(sorted) : RowLess(keys, row, sorted[i])}
        k == IF after = {} THEN Len(sorted) + 1 ELSE Min(after)
    IN  SubSeq(sorted, 1, k - 1) \o <<row>> \o SubSeq(sorted, k, Len(sorted))

\* ORDER BY / orderBy: the rows in ascending order of the key columns.
RECURSIVE SortRows(_, _)
SortRows(keys, rows) ==
    IF rows = <<>> THEN <<>>
    ELSE InsertRow(keys, SortRows(keys, SubSeq(rows, 1, Len(rows) - 1)), rows[Len(rows)])

OrderBy(d, names) ==
    DataFrame(d.cols, d.types,
              SortRows([k \in 1..Len(names) |-> ColIndex(d, names[k])], d.rows))

\* Mutant of WithColumn: the new column always goes to the end, an existing column
\* of that name is removed.
WithColumnAtEnd(d, name, e) ==
    LET keep == SelectSeq([k \in 1..Len(d.cols) |-> k], LAMBDA k : d.cols[k] # name)
    IN  DataFrame([k \in 1..Len(keep) |-> d.cols[keep[k]]] \o <<name>>,
                  [k \in 1..Len(keep) |-> d.types[keep[k]]] \o <<ExprType(d, e)>>,
                  [r \in 1..Len(d.rows) |->
                      AsSeq([k \in 1..Len(keep) |-> d.rows[r][keep[k]]])
                          \o <<EvalExpr(d, e, d.rows[r])>>])

\* df.withColumn(name, e): replaces the column of that name in place, or appends.
WithColumn(d, name, e) ==
    IF HasCol(d, name)
    THEN LET i == ColIndex(d, name)
         IN  DataFrame(d.cols,
                       [d.types EXCEPT ![i] = ExprType(d, e)],
                       [r \in 1..Len(d.rows) |->
                           [d.rows[r] EXCEPT ![i] = EvalExpr(d, e, d.rows[r])]])
    ELSE DataFrame(Append(d.cols, name),
                   Append(d.types, ExprType(d, e)),
                   [r \in 1..Len(d.rows) |-> Append(d.rows[r], EvalExpr(d, e, d.rows[r]))])

(***************************************************************************)
(* fix_dates and fix_types.                                                *)
(***************************************************************************)
Note(kind, column) == [kind |-> kind, column |-> column]

\* fix_dates: the loop over df.columns from position i on; d is the DataFrame
\* built so far.
RECURSIVE FixDatesFrom(_, _, _)
FixDatesFrom(d, columns, i) ==
    IF i > Len(columns) THEN d
    ELSE LET column == columns[i]
         IN  IF EndsWith(column, DateSuffix) /\ DType(d, column) = "string"
             THEN FixDatesFrom(
                      WithColumn(d, column,
                                 [kind |-> "to_date", name |-> column, alias |-> column]),
                      columns, i + 1)
             ELSE FixDatesFrom(d, columns, i + 1)

fix_dates(d) == FixDatesFrom(d, d.cols, 1)

\* The NOTE lines fix_dates prints.
RECURSIVE FixDatesNotes(_, _)
FixDatesNotes(d, i) ==
    IF i > Len(d.cols) THEN <<>>
    ELSE (IF EndsWith(d.cols[i], DateSuffix) /\ d.types[i] = "string"
          THEN <<Note("date", d.cols[i])>> ELSE <<>>) \o FixDatesNotes(d, i + 1)

\* Mutant of intcols: the allowlist holds cost too.
intcolsWithCost == {c_premium, c_sum_insured, c_vehicle_age, c_cost}

intcols == {c_premium, c_sum_insured, c_vehicle_age}

\* Mutant of FixTypesItem: an allowlisted column is cast only while it is a string.
FixTypesItemStringOnly(d, column) ==
    IF column \in intcols /\ DType(d, column) = "string"
    THEN [kind |-> "cast_int", name |-> column, alias |-> column]
    ELSE IF EndsWith(column, DateSuffix) /\ DType(d, column) = "string"
    THEN [kind |-> "to_date", name |-> column, alias |-> column]
    ELSE [kind |-> "col", name |-> column, alias |-> column]

\* The item fix_types appends to sel for one column.
FixTypesItem(d, column) ==
    IF column \in intcols
    THEN [kind |-> "cast_int", name |-> column, alias |-> column]
    ELSE IF EndsWith(column, DateSuffix) /\ DType(d, column) = "string"
    THEN [kind |-> "to_date", name |-> column, alias |-> column]
    ELSE [kind |-> "col", name |-> column, alias |-> column]

fix_types(d) == Select(d, [i \in 1..Len(d.cols) |-> FixTypesItem(d, d.cols[i])])

\* Mutant of FixTypesNotes: a line for the columns that are strings only.
RECURSIVE FixTypesNotesOfStrings(_, _)
FixTypesNotesOfStrings(d, i) ==
    IF i > Len(d.cols) THEN <<>>
    ELSE LET item == FixTypesItem(d, d.cols[i])
         IN  (IF d.types[i] # "string" THEN <<>>
              ELSE IF item.kind = "cast_int" THEN <<Note("integer", d.cols[i])>>
              ELSE IF item.kind = "to_date" THEN <<Note("date", d.cols[i])>>
              ELSE <<>>) \o FixTypesNotesOfStrings(d, i + 1)

\* The NOTE lines fix_types prints.
RECURSIVE FixTypesNotes(_, _)
FixTypesNotes(d, i) ==
    IF i > Len(d.cols) THEN <<>>
    ELSE LET item == FixTypesItem(d, d.cols[i])
         IN  (IF item.kind = "cast_int" THEN <<Note("integer", d.cols[i])>>
              ELSE IF item.kind = "to_date" THEN <<Note("date", d.cols[i])>>
              ELSE <<>>) \o FixTypesNotes(d, i + 1)

(***************************************************************************)
(* The cast stage on its own: fix_types / fix_dates applied, up to         *)
(* MaxApply times, to a DataFrame whose columns have any declared type.    *)
(***************************************************************************)
CastNames == {c_premium, c_start_date, c_make}

CastSchemas ==
    {<<>>} \cup {<<a>> : a \in CastNames}
           \cup {s \in {<<a, b>> : a \in CastNames, b \in CastNames} : s[1] # s[2]}

\* The cells a column of the given declared type can hold.
CastCells(type) ==
    CASE type = "string" ->
            {StrCell(Dec(20200101, 8)), StrCell(Dec(20201301, 8)),
             StrCell(Dec(20200101, 8) \o <<"x">>),
             StrCell(<<"7", ".", "5">>), StrCell(<<"x">>), Null}
      [] type = "int" -> {IntCell(7), Null}
      [] OTHER -> {DateCell(20200101), Null}

CastTypes == {"string", "int", "date"}

CastRows(types) ==
    {row \in [1..Len(types) -> UNION {CastCells(t) : t \in CastTypes}] :
        \A i \in 1..Len(types) : row[i] \in CastCells(types[i])}

CastInit ==
    /\ \E cols \in CastSchemas :
         \E types \in [1..Len(cols) -> CastTypes] :
           \E m \in 0..MaxCastRows :
             \E rows \in [1..m -> CastRows(types)] :
               input = DataFrame(cols, types, rows)
    /\ df = input
    /\ prev = input
    /\ hist = <<>>
    /\ out = <<>>
    /\ csvPolicy = Unset /\ csvClaims = Unset /\ pc = "none"
    /\ policyDF = Unset /\ claimsDF = Unset /\ combinedDF = Unset
    /\ summary = Unset /\ sqlDF = Unset /\ shown = Unset
    /\ otherDF = Unset
    /\ spark = Unset /\ stopped = {} /\ frames = Unset /\ ran = Unset
    /\ ctabDF = Unset
    /\ files = Unset /\ job = Unset /\ partitions = Unset /\ parquetDF = Unset

ApplyFixTypes ==
    /\ Len(hist) < MaxApply
    /\ df' = fix_types(df)
    /\ prev' = df
    /\ hist' = Append(hist, "fix_types")
    /\ out' = out \o FixTypesNotes(df, 1)
    /\ UNCHANGED <<input, bookVars, planVars, writeVars, introVars, tabVars>>

ApplyFixDates ==
    /\ Len(hist) < MaxApply
    /\ df' = fix_dates(df)
    /\ prev' = df
    /\ hist' = Append(hist, "fix_dates")
    /\ out' = out \o FixDatesNotes(df, 1)
    /\ UNCHANGED <<input, bookVars, planVars, writeVars, introVars, tabVars>>

CastNext == ApplyFixTypes \/ ApplyFixDates

SpecCast == CastInit /\ [][CastNext]_vars

(***************************************************************************)
(* Properties of the cast stage (checked under SpecCast).                  *)
(***************************************************************************)
LastOp == hist[Len(hist)]

IsDateName(name) == EndsWith(name, DateSuffix)

\* C1: applying fix_types (likewise fix_dates) a second time in a row gives the
\* same DataFrame - column names, their order, declared types and every cell -
\* as the first application gave.
CastIdempotent ==
    (Len(hist) >= 2 /\ hist[Len(hist)] = hist[Len(hist) - 1]) => df = prev

\* Witness of C1: fix_types ran twice on a DataFrame in which a string cell
\* failed to parse (it became NULL) and another cell was converted.
CastTwiceWitness ==
    /\ hist = <<"fix_types", "fix_types">>
    /\ \E r \in 1..Len(input.rows) : \E i \in 1..Len(input.cols) :
          input.rows[r][i].t = "string" /\ df.rows[r][i] = Null
    /\ \E r \in 1..Len(input.rows) : \E i \in 1..Len(input.cols) :
          input.rows[r][i].t = "string" /\ df.rows[r][i].t \in {"int", "date"}

\* C2 as stated: after fix_types, whatever the declared types were, every
\* allowlisted column is integer, every *_date column is date, and every other
\* column keeps its type.
FixTypesTypesAnyInput ==
    (hist # <<>> /\ LastOp = "fix_types") =>
        \A i \in 1..Len(df.cols) :
            IF df.cols[i] \in intcols THEN df.types[i] = "int"
            ELSE IF IsDateName(df.cols[i]) THEN df.types[i] = "date"
            ELSE df.types[i] = prev.types[i]

\* C2 amended: after fix_types every allowlisted column is integer, every *_date
\* column that was string or date before is date, and every other column - a
\* *_date column of another type included - keeps its type; each cell that can
\* be computed is NULL or a value of its column's type.
FixTypesTypes ==
    (hist # <<>> /\ LastOp = "fix_types") =>
        \A i \in 1..Len(df.cols) :
            /\ IF df.cols[i] \in intcols THEN df.types[i] = "int"
               ELSE IF IsDateName(df.cols[i]) /\ prev.types[i] \in {"string", "date"}
               THEN df.types[i] = "date"
               ELSE df.types[i] = prev.types[i]
            /\ \A r \in 1..Len(df.rows) :
                  \/ IsNull(df.rows[r][i])
                  \/ df.rows[r][i] = Failure
                  \/ df.rows[r][i].t = df.types[i]

\* Witness of C2: fix_types ran on a DataFrame with an allowlisted column that
\* was not integer and a *_date column of integer type, which stayed integer.
FixTypesTypesWitness ==
    /\ hist = <<"fix_types">>
    /\ \E i \in 1..Len(df.cols) :
          df.cols[i] \in intcols /\ prev.types[i] # "int" /\ Len(df.rows) > 0
    /\ \E i \in 1..Len(df.cols) :
          IsDateName(df.cols[i]) /\ prev.types[i] = "int" /\ df.types[i] = "int"

\* Whether the function converts column i of d.
Converts(op, d, i) ==
    \/ op = "fix_types" /\ d.cols[i] \in intcols
    \/ IsDateName(d.cols[i]) /\ d.types[i] = "string"

\* C3: fix_types and fix_dates return the same number of rows and the same
\* column names in the same order; the type and the cells of every column they
\* do not convert are unchanged.
CastKeepsShape ==
    hist # <<>> =>
        /\ Len(df.rows) = Len(prev.rows)
        /\ df.cols = prev.cols
        /\ \A i \in 1..Len(prev.cols) :
              ~Converts(LastOp, prev, i) =>
                  /\ df.types[i] = prev.types[i]
                  /\ \A r \in 1..Len(prev.rows) : df.rows[r][i] = prev.rows[r][i]

\* Witness of C3: fix_dates ran on a DataFrame with a row and two columns, of
\* which it converted the first and left the second.
CastKeepsShapeWitness ==
    /\ hist = <<"fix_dates">>
    /\ Len(prev.rows) > 0
    /\ Len(prev.cols) = 2
    /\ Converts("fix_dates", prev, 1)
    /\ ~Converts("fix_dates", prev, 2)
    /\ df.rows[1][1].t = "date"

\* Column i of the result has the type and the cells it had in the argument.
ColumnUnchanged(i) ==
    /\ df.types[i] = prev.types[i]
    /\ \A r \in 1..Len(prev.rows) : df.rows[r][i] = prev.rows[r][i]

\* C19 as stated: fix_types and fix_dates leave the type and every cell of each
\* column that does not have type string, whatever its name.
NonStringUnchanged ==
    hist # <<>> =>
        \A i \in 1..Len(prev.cols) : prev.types[i] # "string" => ColumnUnchanged(i)

\* What holds: fix_dates leaves every column that is not a string column;
\* fix_types leaves those that are not allowlisted or have type int, and turns
\* an allowlisted column of type date into an int column of NULLs.
NonStringOutcomes ==
    hist # <<>> =>
        \A i \in 1..Len(prev.cols) :
            prev.types[i] # "string" =>
                IF LastOp = "fix_types" /\ prev.cols[i] \in intcols /\ prev.types[i] # "int"
                THEN /\ df.types[i] = "int"
                     /\ \A r \in 1..Len(prev.rows) : df.rows[r][i] = Null
                ELSE ColumnUnchanged(i)

\* fix_types ran on a column premium of type date that held a date.
AllowlistedDateWitness ==
    /\ hist = <<"fix_types">>
    /\ \E i \in 1..Len(prev.cols) :
          /\ prev.cols[i] = c_premium
          /\ prev.types[i] = "date"
          /\ Len(prev.rows) > 0
          /\ prev.rows[1][i] = DateCell(20200101)
          /\ df.types[i] = "int"
          /\ df.rows[1][i] = Null

\* Text that is a base-10 integer: digits, after an optional sign.
WellFormedInt(s) ==
    LET body == IF s # <<>> /\ s[1] \in {"-", "+"} THEN Tail(s) ELSE s
    IN  body # <<>> /\ AllDigits(body)

\* Text that is an eight-digit yyyyMMdd calendar date.
WellFormedDate(s) == Len(s) = 8 /\ AllDigits(s) /\ ~IsNull(NewParseDate(s))

\* What the function does with column i of d: "cast_int", "to_date" or "col".
Conversion(op, d, i) ==
    IF op = "fix_types" THEN FixTypesItem(d, d.cols[i]).kind
    ELSE IF IsDateName(d.cols[i]) /\ d.types[i] = "string" THEN "to_date"
    ELSE "col"

ApplyOp(op, d) == IF op = "fix_types" THEN fix_types(d) ELSE fix_dates(d)

\* Whether the cell of row r, column i of d is text that its conversion by the
\* function cannot read as a well-formed value.
BadCell(op, d, r, i) ==
    /\ d.rows[r][i].t = "string"
    /\ \/ Conversion(op, d, i) = "cast_int" /\ ~WellFormedInt(d.rows[r][i].v)
       \/ Conversion(op, d, i) = "to_date" /\ ~WellFormedDate(d.rows[r][i].v)

\* A well-formed text for either conversion.
GoodText == StrCell(Dec(20200101, 8))

\* C12 as stated: a cell of a cast_integer column that is no well-formed
\* base-10 integer, or of a parse_date column that is no well-formed eight-digit
\* yyyyMMdd date, does not make the stage fail: the cell becomes NULL, and every
\* other cell gets the value it gets when the bad cell is well-formed.
MalformedToNull ==
    hist # <<>> =>
        \A r \in 1..Len(prev.rows) : \A i \in 1..Len(prev.cols) :
            BadCell(LastOp, prev, r, i) =>
                /\ df.rows[r][i] = Null
                /\ LET alt == ApplyOp(LastOp,
                                  [prev EXCEPT !.rows[r][i] = GoodText])
                   IN  \A q \in 1..Len(prev.rows) : \A k \in 1..Len(prev.cols) :
                           <<q, k>> # <<r, i>> => df.rows[q][k] = alt.rows[q][k]

\* What holds of a bad cell: it becomes NULL, or - text with a fraction under
\* cast_integer - the integer before the point, or - a date followed by another
\* character under parse_date - a cell that makes every action on the table
\* raise; the other cells are as they are when the bad cell is well-formed.
MalformedOutcomes ==
    hist # <<>> =>
        \A r \in 1..Len(prev.rows) : \A i \in 1..Len(prev.cols) :
            BadCell(LastOp, prev, r, i) =>
                /\ \/ df.rows[r][i] = Null
                   \/ /\ Conversion(LastOp, prev, i) = "cast_int"
                      /\ FirstDot(prev.rows[r][i].v) <= Len(prev.rows[r][i].v)
                      /\ df.rows[r][i].t = "int"
                   \/ /\ Conversion(LastOp, prev, i) = "to_date"
                      /\ WellFormedDate(SubSeq(prev.rows[r][i].v, 1, 8))
                      /\ df.rows[r][i] = Failure
                /\ LET alt == ApplyOp(LastOp,
                                  [prev EXCEPT !.rows[r][i] = GoodText])
                   IN  \A q \in 1..Len(prev.rows) : \A k \in 1..Len(prev.cols) :
                           <<q, k>> # <<r, i>> => df.rows[q][k] = alt.rows[q][k]

\* Witness of C12: fix_types has run on a table with a date followed by another
\* character in a *_date column: the cell it gives raises.
MalformedRaisesWitness ==
    /\ hist = <<"fix_types">>
    /\ \E r \in 1..Len(prev.rows) : \E i \in 1..Len(prev.cols) :
          /\ BadCell("fix_types", prev, r, i)
          /\ df.rows[r][i] = Failure
    /\ Len(prev.cols) = 2

(***************************************************************************)
(* Joins.                                                                  *)
(***************************************************************************)
\* Mutant of JoinCond: the last day of the term is excluded.
JoinCondExclusive(L, lrow, R, rrow) ==
    And3(And3(Eq3(lrow[ColIndex(L, c_policy)], rrow[ColIndex(R, c_policy)]),
              Le3(lrow[ColIndex(L, c_start_date)], rrow[ColIndex(R, c_incident_date)])),
         IF Eq3(lrow[ColIndex(L, c_end_date)], rrow[ColIndex(R, c_incident_date)]) = "true"
         THEN "false"
         ELSE Le3(rrow[ColIndex(R, c_incident_date)], lrow[ColIndex(L, c_end_date)]))

\* (policyDF.policy == claimsDF.policy) &
\* (policyDF.start_date <= claimsDF.incident_date) &
\* (policyDF.end_date >= claimsDF.incident_date)
JoinCond(L, lrow, R, rrow) ==
    And3(And3(Eq3(lrow[ColIndex(L, c_policy)], rrow[ColIndex(R, c_policy)]),
              Le3(lrow[ColIndex(L, c_start_date)], rrow[ColIndex(R, c_incident_date)])),
         Le3(rrow[ColIndex(R, c_incident_date)], lrow[ColIndex(L, c_end_date)]))

Nulls(n) == [k \in 1..n |-> Null]

\* The rows the join gives for the left rows from position i on: a left row with
\* each right row for which the condition is true; in "left" mode a left row
\* without such a right row once, with NULLs.
RECURSIVE JoinRowsFrom(_, _, _, _)
JoinRowsFrom(L, R, how, i) ==
    IF i > Len(L.rows) THEN <<>>
    ELSE LET lrow == L.rows[i]
             hits == SelectSeq(R.rows, LAMBDA rrow : JoinCond(L, lrow, R, rrow) = "true")
         IN  (IF hits = <<>> /\ how = "left"
              THEN <<lrow \o Nulls(Len(R.cols))>>
              ELSE [k \in 1..Len(hits) |-> lrow \o hits[k]])
             \o JoinRowsFrom(L, R, how, i + 1)

\* Mutant of Join: the join type is ignored, every join is an inner join.
JoinAlwaysInner(L, R, how) ==
    DataFrame(L.cols \o R.cols, L.types \o R.types, JoinRowsFrom(L, R, "inner", 1))

\* Mutant of Join: in "left" mode every left row comes once with NULLs, the
\* rows with a match too.
RECURSIVE PaddedRowsFrom(_, _, _, _)
PaddedRowsFrom(L, R, how, i) ==
    IF i > Len(L.rows) THEN <<>>
    ELSE LET lrow == L.rows[i]
             hits == SelectSeq(R.rows, LAMBDA rrow : JoinCond(L, lrow, R, rrow) = "true")
         IN  [k \in 1..Len(hits) |-> lrow \o hits[k]]
             \o (IF how = "left" THEN <<lrow \o Nulls(Len(R.cols))>> ELSE <<>>)
             \o PaddedRowsFrom(L, R, how, i + 1)

JoinPadded(L, R, how) ==
    DataFrame(L.cols \o R.cols, L.types \o R.types, PaddedRowsFrom(L, R, how, 1))

\* L.join(R, <condition>, how)
Join(L, R, how) ==
    DataFrame(L.cols \o R.cols, L.types \o R.types, JoinRowsFrom(L, R, how, 1))

Col(name) == [kind |-> "col", name |-> name, alias |-> name]

\* df.select([name, ...])
SelectNames(d, names) == Select(d, [k \in 1..Len(names) |-> Col(names[k])])

\* Mutant of DropColumn: the first column that has the name of the column at
\* position i is dropped.
DropColumnByName(d, i) ==
    LET first == ColIndex(d, d.cols[i])
        keep == SelectSeq([k \in 1..Len(d.cols) |-> k], LAMBDA k : k # first)
    IN  DataFrame([k \in 1..Len(keep) |-> d.cols[keep[k]]],
                  [k \in 1..Len(keep) |-> d.types[keep[k]]],
                  [r \in 1..Len(d.rows) |->
                      AsSeq([k \in 1..Len(keep) |-> d.rows[r][keep[k]]])])

\* df.drop(<column>), the column being the one at position i.
DropColumn(d, i) ==
    LET keep == SelectSeq([k \in 1..Len(d.cols) |-> k], LAMBDA k : k # i)
    IN  DataFrame([k \in 1..Len(keep) |-> d.cols[keep[k]]],
                  [k \in 1..Len(keep) |-> d.types[keep[k]]],
                  [r \in 1..Len(d.rows) |->
                      AsSeq([k \in 1..Len(keep) |-> d.rows[r][keep[k]]])])

\* What a variable holds after "x = ... .show()": show() returns None.
None == [none |-> TRUE]

(***************************************************************************)
(* Window functions, grouping and cross-tabulation.                        *)
(***************************************************************************)
LongCell(v) == [t |-> "long", v |-> v]

Max(S) == CHOOSE x \in S : \A y \in S : x >= y

\* The distinct items of a sequence, in the order of their first appearance.
Distinct(seq) ==
    LET firsts == SelectSeq([i \in 1..Len(seq) |-> i],
                            LAMBDA i : \A j \in 1..(i - 1) : seq[j] # seq[i])
    IN  [n \in 1..Len(firsts) |-> seq[firsts[n]]]

RECURSIVE Flatten(_)
Flatten(seqs) == IF seqs = <<>> THEN <<>> ELSE Head(seqs) \o Flatten(Tail(seqs))

\* sum() of cells: NULLs are skipped, the sum of no value is NULL.
RECURSIVE SumValues(_)
SumValues(cells) ==
    IF cells = <<>> THEN 0
    ELSE (IF IsNull(Head(cells)) THEN 0 ELSE Head(cells).v) + SumValues(Tail(cells))

SumCells(cells) ==
    IF \A i \in 1..Len(cells) : IsNull(cells[i]) THEN Null ELSE LongCell(SumValues(cells))

\* Mutant of WindowRows: the rows as the table holds them, neither brought
\* together by partition nor ordered.
WindowRowsAsRead(d, by, order) == d.rows

\* Window.partitionBy(by).orderBy(order): the rows partition by partition (NULL
\* keys form one partition), each partition in ascending order of the order
\* column, NULLs first.
WindowRows(d, by, order) ==
    LET b == ColIndex(d, by)
        keys == Distinct([r \in 1..Len(d.rows) |-> d.rows[r][b]])
    IN  Flatten([n \in 1..Len(keys) |->
                    SortRows(<<ColIndex(d, order)>>,
                             SelectSeq(d.rows, LAMBDA row : row[b] = keys[n]))])

\* The first row of the partition of row i, in rows ordered by WindowRows.
FirstOfPartition(W, b, i) == Min({j \in 1..Len(W) : W[j][b] = W[i][b]})

\* Mutant of RankValues: dense ranking, a tie does not skip ranks.
DenseRankValues(W, b, o) ==
    LET rk[i \in 1..Len(W)] ==
            IF i = FirstOfPartition(W, b, i) THEN 1
            ELSE IF W[i][o] = W[i - 1][o] THEN rk[i - 1]
            ELSE rk[i - 1] + 1
    IN  AsSeq([i \in 1..Len(W) |-> IntCell(rk[i])])

\* rank(): the row number within the partition, kept from the previous row while
\* the order column does not change.
RankValues(W, b, o) ==
    LET rk[i \in 1..Len(W)] ==
            IF i = FirstOfPartition(W, b, i) THEN 1
            ELSE IF W[i][o] = W[i - 1][o] THEN rk[i - 1]
            ELSE i - FirstOfPartition(W, b, i) + 1
    IN  AsSeq([i \in 1..Len(W) |-> IntCell(rk[i])])

\* Mutant of RangeSums: a ROWS frame, the sum ends at the current row.
RowsSums(W, b, o, v) ==
    AsSeq([i \in 1..Len(W) |->
        SumCells([j \in 1..(i - FirstOfPartition(W, b, i) + 1) |->
                     W[FirstOfPartition(W, b, i) + j - 1][v]])])

\* sum(v) over an ordered window: the default frame is RANGE BETWEEN UNBOUNDED
\* PRECEDING AND CURRENT ROW, from the first row of the partition to the last
\* row with the order value of the current row.
RangeSums(W, b, o, v) ==
    AsSeq([i \in 1..Len(W) |->
        LET first == FirstOfPartition(W, b, i)
            last == Max({j \in 1..Len(W) : W[j][b] = W[i][b] /\ W[j][o] = W[i][o]})
        IN  SumCells([j \in 1..(last - first + 1) |-> W[first + j - 1][v]])])

\* The text of a cell in concat(): a string as it is, an integer in decimal.
CellText(c) == IF c.t = "string" THEN c.v ELSE Dec(c.v, 1)

\* concat(a, lit(sep), b): NULL when a or b is NULL.
Concat(a, sep, b) ==
    IF IsNull(a) \/ IsNull(b) THEN Null ELSE StrCell(CellText(a) \o sep \o CellText(b))

\* withColumn(name, <window expression>): the rows come out in window order with
\* the values of the expression in the column name, added at the end or replaced.
WithWindowColumn(d, W, name, type, values) ==
    IF HasCol(d, name)
    THEN DataFrame(d.cols, [d.types EXCEPT ![ColIndex(d, name)] = type],
                   [i \in 1..Len(W) |-> [W[i] EXCEPT ![ColIndex(d, name)] = values[i]]])
    ELSE DataFrame(Append(d.cols, name), Append(d.types, type),
                   [i \in 1..Len(W) |-> Append(W[i], values[i])])

\* withColumn(name, rank().over(Window.partitionBy(by).orderBy(order)))
WithRank(d, name, by, order) ==
    LET W == WindowRows(d, by, order)
    IN  WithWindowColumn(d, W, name, "int",
                         RankValues(W, ColIndex(d, by), ColIndex(d, order)))

\* withColumn(name, F.sum(v).over(Window.partitionBy(by).orderBy(order)))
WithRunningSum(d, name, v, by, order) ==
    LET W == WindowRows(d, by, order)
    IN  WithWindowColumn(d, W, name, "long",
                         RangeSums(W, ColIndex(d, by), ColIndex(d, order), ColIndex(d, v)))

\* withColumn(name, concat(a, lit(sep), col(b)))
WithConcat(d, name, a, sep, b) ==
    WithWindowColumn(d, d.rows, name, "string",
        [i \in 1..Len(d.rows) |->
            Concat(d.rows[i][ColIndex(d, a)], sep, d.rows[i][ColIndex(d, b)])])

\* df.withColumnRenamed(old, new)
WithColumnRenamed(d, old, new) ==
    DataFrame([k \in 1..Len(d.cols) |-> IF d.cols[k] = old THEN new ELSE d.cols[k]],
              d.types, d.rows)

\* x.lower() of Python, on the characters of the data.
Lower(x) ==
    [i \in 1..Len(x) |->
        IF CharOrd("A") <= CharOrd(x[i]) /\ CharOrd(x[i]) <= CharOrd("Z")
        THEN Alphabet[CharOrd(x[i]) - CharOrd("A") + CharOrd("a")]
        ELSE x[i]]

\* df.select([col(x).alias(x.lower()) for x in df.columns]), the names of df
\* differing in more than their case: col(x) is the column named x.
SelectLower(d) ==
    Select(d, [k \in 1..Len(d.cols) |->
                  [kind |-> "col", name |-> d.cols[k], alias |-> AsSeq(Lower(d.cols[k]))]])

\* The name of the column that sum(v) gives.
SumName(v) == <<"s", "u", "m", "(">> \o v \o <<")">>

\* Mutant of GroupBySum: every group gets the sum over the whole table.
GroupBySumOfAll(d, by, v) ==
    LET keys == Distinct([r \in 1..Len(d.rows) |-> d.rows[r][ColIndex(d, by)]])
    IN  DataFrame(<<by, SumName(v)>>, <<DType(d, by), "long">>,
                  [n \in 1..Len(keys) |->
                      <<keys[n],
                        SumCells([r \in 1..Len(d.rows) |-> d.rows[r][ColIndex(d, v)]])>>])

\* df.groupBy(by).sum(v): one row per distinct value of by, with the sum of v
\* over the rows of the group.
GroupBySum(d, by, v) ==
    LET keys == Distinct([r \in 1..Len(d.rows) |-> d.rows[r][ColIndex(d, by)]])
        group(n) == SelectSeq(d.rows, LAMBDA row : row[ColIndex(d, by)] = keys[n])
    IN  DataFrame(<<by, SumName(v)>>, <<DType(d, by), "long">>,
                  [n \in 1..Len(keys) |->
                      <<keys[n],
                        SumCells([r \in 1..Len(group(n)) |-> group(n)[r][ColIndex(d, v)]])>>])

\* df.groupBy(col1, col2).agg(count("*")): one <<value1, value2, count>> per
\* distinct pair of values (NULL is a value of its own).
PairCounts(d, i1, i2) ==
    LET pairs == Distinct([r \in 1..Len(d.rows) |-> <<d.rows[r][i1], d.rows[r][i2]>>])
    IN  [n \in 1..Len(pairs) |->
            <<pairs[n][1], pairs[n][2],
              Cardinality({r \in 1..Len(d.rows) :
                              <<d.rows[r][i1], d.rows[r][i2]>> = pairs[n]})>>]

Reverse(seq) == [i \in 1..Len(seq) |-> seq[Len(seq) + 1 - i]]

NullText == <<"n", "u", "l", "l">>

\* The text crosstab uses for a value: "null" for NULL.
CleanElement(c) == IF IsNull(c) THEN NullText ELSE CellText(c)

\* Distinct texts in ascending order.
SortedTexts(texts) ==
    LET rows == SortRows(<<1>>, [i \in 1..Len(Distinct(texts)) |->
                                    <<StrCell(Distinct(texts)[i])>>])
    IN  [i \in 1..Len(rows) |-> rows[i][1].v]

\* df.crosstab(col1, col2), counts being the pair counts in the order the engine
\* hands them over: one column per distinct text of col2, in ascending order,
\* one row per distinct value of col1; a cell is set from each pair count of its
\* row and column in turn (the last one stays), cells never set are filled with 0.
Crosstab(col1, col2, counts) ==
    LET names == SortedTexts([n \in 1..Len(counts) |-> CleanElement(counts[n][2])])
        keys == Distinct([n \in 1..Len(counts) |-> counts[n][1]])
        cell(k, m) ==
            LET sets == {n \in 1..Len(counts) :
                            /\ counts[n][1] = keys[k]
                            /\ CleanElement(counts[n][2]) = names[m]}
            IN  IF sets = {} THEN LongCell(0) ELSE LongCell(counts[Max(sets)][3])
    IN  DataFrame(<<col1 \o <<"_">> \o col2>> \o names,
                  <<"string">> \o [m \in 1..Len(names) |-> "long"],
                  [k \in 1..Len(keys) |->
                      <<StrCell(CleanElement(keys[k]))>> \o
                      [m \in 1..Len(names) |-> cell(k, m)]])

(***************************************************************************)
(* The data of the notebooks.                                              *)
(***************************************************************************)
TOYOTA == <<"T", "O", "Y", "O", "T", "A">>
SUBARU == <<"S", "U", "B", "A", "R", "U">>
FORD == <<"F", "O", "R", "D">>
MAZDA == <<"M", "A", "Z", "D", "A">>
HOLDEN == <<"H", "O", "L", "D", "E", "N">>
SUZUKI == <<"S", "U", "Z", "U", "K", "I">>
BMW == <<"B", "M", "W">>
AUDI == <<"A", "U", "D", "I">>
TESLA == <<"T", "E", "S", "L", "A">>
HYUNDAI == <<"H", "Y", "U", "N", "D", "A", "I">>

\* The policy numbers CAR0001, CAR0002, ...
Car(n) == <<"C", "A", "R">> \o Dec(n, 4)

\* A CSV field holding a number, and one holding a yyyyMMdd date.
NumText(n) == StrCell(Dec(n, 1))
DateText(n) == StrCell(Dec(n, 8))

PolicyCols ==
    <<c_policy, c_make, c_vehicle_age, c_sum_insured, c_inception_date, c_start_date,
      c_end_date, c_premium>>

ClaimCols == <<c_policy, c_incident_date, c_cost>>

\* spark.read.option("header", True).csv(...): every column is a string.
ReadCsv(cols, rows) == DataFrame(cols, [i \in 1..Len(cols) |-> "string"], rows)

PolicyLine(n, make, age, insured, inception, start, end, premium) ==
    <<StrCell(Car(n)), StrCell(make), NumText(age), NumText(insured), DateText(inception),
      DateText(start), DateText(end), NumText(premium)>>

ClaimLine(n, incident, cost) == <<StrCell(Car(n)), DateText(incident), NumText(cost)>>

\* The 16 rows of policy.csv, as the notebooks display them.  The displays show
\* end_date for seven rows only and inception_date for five; the others follow the
\* displayed status (inception_date = start_date exactly for "New Business") and
\* the one-year terms of the displayed rows.
ExamplePolicies ==
    <<PolicyLine(1, TOYOTA, 1, 15000, 20180101, 20180101, 20181231, 1000),
      PolicyLine(1, TOYOTA, 2, 13500, 20180101, 20190101, 20191231, 900),
      PolicyLine(1, TOYOTA, 3, 12000, 20180101, 20200101, 20201231, 800),
      PolicyLine(2, SUBARU, 2, 14000, 20200210, 20200210, 20210209, 950),
      PolicyLine(3, FORD, 6, 10000, 20180315, 20180315, 20190314, 700),
      PolicyLine(3, FORD, 7, 9000, 20180315, 20190315, 20200314, 600),
      PolicyLine(3, FORD, 8, 8000, 20180315, 20200315, 20210314, 550),
      PolicyLine(4, MAZDA, 4, 11000, 20190402, 20190402, 20200401, 750),
      PolicyLine(4, MAZDA, 5, 10000, 20200402, 20200402, 20210401, 700),
      PolicyLine(5, HOLDEN, 9, 6000, 20200516, 20200516, 20210515, 400),
      PolicyLine(6, SUZUKI, 5, 4000, 20200618, 20200618, 20210617, 300),
      PolicyLine(7, BMW, 4, 24000, 20200713, 20200713, 20210712, 1600),
      PolicyLine(8, AUDI, 3, 28000, 20200811, 20200811, 20210810, 1800),
      PolicyLine(9, TESLA, 1, 72000, 20190917, 20190917, 20200916, 4800),
      PolicyLine(9, TESLA, 2, 65000, 20190917, 20200917, 20210916, 3500),
      PolicyLine(10, HYUNDAI, 6, 5000, 20201015, 20201015, 20211014, 300)>>

\* The rows of claims.csv that the join displays.
ExampleClaims ==
    <<ClaimLine(1, 20200605, 5000),
      ClaimLine(4, 20200610, 3000),
      ClaimLine(7, 20200910, 24000),
      ClaimLine(9, 20200210, 15000)>>

\* Other contents of policy.csv: rows that differ in policy number and start_date
\* (an empty field is NULL) ...
KeyLines ==
    {[PolicyLine(n, TOYOTA, 1, 100, 20200101, 20200101, 20200630, 10)
         EXCEPT ![6] = t.start, ![8] = t.premium] :
        n \in {1, 2},
        t \in {[start |-> DateText(20200101), premium |-> NumText(10)],
               [start |-> DateText(20200601), premium |-> NumText(20)],
               [start |-> Null, premium |-> NumText(40)]}}

\* ... and rows that differ in make, sum_insured, inception_date and start_date
\* ("n/a" is text that is no date).
StatusLines ==
    {[PolicyLine(1, m.make, 1, m.insured, 20200101, 20200101, 20200630, 10)
         EXCEPT ![5] = t[1], ![6] = t[2]] :
        m \in {[make |-> FORD, insured |-> 100], [make |-> BMW, insured |-> 250]},
        t \in {<<DateText(20200101), DateText(20200101)>>,
               <<DateText(20200101), DateText(20200601)>>,
               <<Null, Null>>,
               <<StrCell(<<"n", "/", "a">>), StrCell(<<"n", "/", "a">>)>>}}

\* ... and rows without a make next to a row whose make is the text "null".
NullMakeLines ==
    LET line == PolicyLine(1, NullText, 1, 100, 20200101, 20200101, 20200630, 10)
        bare == [line EXCEPT ![2] = Null]
    IN  {<<bare, bare, line>>, <<line, bare, bare>>}

\* ... and a make whose text is the name the crosstab key column is renamed to.
StatusMakeLines ==
    {<<PolicyLine(1, <<"S", "T", "A", "T", "U", "S">>, 1, 100, 20200101, 20200101,
                  20200630, 10),
       PolicyLine(2, TOYOTA, 2, 250, 20200101, 20200601, 20210531, 20)>>}

\* Contents of claims.csv for them: an incident on the first day of a term, on
\* its last day, after it, and one of another policy.
OnStart == ClaimLine(1, 20200101, 5)
OnEnd == ClaimLine(1, 20200630, 7)
AfterEnd == ClaimLine(1, 20200701, 9)
OfOther == ClaimLine(2, 20200315, 11)

ClaimTables ==
    {<<>>, <<OnStart>>, <<OnEnd>>, <<AfterEnd>>, <<OfOther>>, <<OnStart, OnEnd>>}

\* Contents of the two files with empty key fields: policy rows without
\* start_date or without end_date, claims without incident_date or without policy.
NullKeyLines ==
    LET whole == PolicyLine(1, TOYOTA, 1, 100, 20200101, 20200101, 20200630, 10)
        noStart == [PolicyLine(1, TOYOTA, 2, 100, 20200101, 20200101, 20200630, 10)
                       EXCEPT ![6] = Null]
        noEnd == [PolicyLine(1, TOYOTA, 3, 100, 20200101, 20200101, 20200630, 10)
                     EXCEPT ![7] = Null]
    IN  {<<whole, noStart, noEnd>>, <<noStart, noEnd>>, <<noEnd, whole>>, <<noStart>>}

NullKeyClaims ==
    LET noIncident == [ClaimLine(1, 20200101, 13) EXCEPT ![2] = Null]
        noPolicy == [ClaimLine(1, 20200301, 15) EXCEPT ![1] = Null]
        noCost == [ClaimLine(1, 20200201, 17) EXCEPT ![3] = Null]
    IN  {<<OnStart, noIncident, noPolicy>>, <<noPolicy, OnEnd>>, <<noIncident>>,
         <<OnStart>>, <<noCost, OnEnd>>}

\* Three terms of one policy of which two start on the same day.
TiedLines ==
    LET early == PolicyLine(1, TOYOTA, 1, 100, 20200101, 20200101, 20200630, 10)
        late == PolicyLine(1, TOYOTA, 2, 100, 20200101, 20200601, 20200630, 20)
    IN  {<<early, early, late>>, <<late, early, early>>, <<early, late, early>>}

\* Terms of two policies, those of one policy apart and out of order.
InterleavedLines ==
    {<<PolicyLine(1, TOYOTA, 2, 100, 20200101, 20200601, 20200630, 20),
       PolicyLine(2, FORD, 1, 250, 20200301, 20200301, 20210228, 40),
       PolicyLine(1, TOYOTA, 1, 100, 20200101, 20200101, 20200531, 10)>>}

(***************************************************************************)
(* The cells of the Data Transformation notebook, run top to bottom.       *)
(***************************************************************************)
Cast(name) == [kind |-> "cast_int", name |-> name, alias |-> name]

Init ==
    /\ \/ /\ csvPolicy = ReadCsv(PolicyCols, ExamplePolicies)
          /\ csvClaims = ReadCsv(ClaimCols, ExampleClaims)
       \/ \E n \in 0..MaxRows : \E lines \in [1..n -> KeyLines] :
            \E claims \in ClaimTables :
               /\ csvPolicy = ReadCsv(PolicyCols, lines)
               /\ csvClaims = ReadCsv(ClaimCols, claims)
       \/ \E n \in 1..MaxRows : \E lines \in [1..n -> StatusLines] :
               /\ csvPolicy = ReadCsv(PolicyCols, lines)
               /\ csvClaims = ReadCsv(ClaimCols, <<OnStart>>)
       \/ \E lines \in NullKeyLines : \E claims \in NullKeyClaims :
               /\ csvPolicy = ReadCsv(PolicyCols, lines)
               /\ csvClaims = ReadCsv(ClaimCols, claims)
       \/ \E lines \in TiedLines \cup NullMakeLines \cup StatusMakeLines
                           \cup InterleavedLines :
               /\ csvPolicy = ReadCsv(PolicyCols, lines)
               /\ csvClaims = ReadCsv(ClaimCols, <<OnEnd>>)
    /\ pc = "read"
    /\ policyDF = Unset /\ claimsDF = Unset /\ combinedDF = Unset
    /\ summary = Unset /\ sqlDF = Unset /\ shown = Unset
    /\ otherDF = Unset
    /\ spark = Unset /\ stopped = {} /\ frames = Unset /\ ran = Unset
    /\ ctabDF = Unset
    /\ files = Unset /\ job = Unset /\ partitions = Unset /\ parquetDF = Unset
    /\ out = <<>>
    /\ input = Unset /\ df = Unset /\ prev = Unset /\ hist = <<>>

\* policyDF = spark.read...csv("./data/policy.csv").withColumn(...) ...
ReadCell ==
    /\ pc = "read"
    /\ policyDF' = WithColumn(WithColumn(WithColumn(csvPolicy,
                        c_sum_insured, Cast(c_sum_insured)),
                        c_vehicle_age, Cast(c_vehicle_age)),
                        c_premium, Cast(c_premium))
    /\ claimsDF' = WithColumn(csvClaims, c_cost, Cast(c_cost))
    /\ pc' = "status"
    /\ UNCHANGED <<csvPolicy, csvClaims, combinedDF, summary, sqlDF, shown, out,
                   castVars, planVars, writeVars, introVars, tabVars>>

\* policyDF = policyDF.withColumn("status", when(...).otherwise("Renewal"))
StatusCell ==
    /\ pc = "status"
    /\ policyDF' = WithColumn(policyDF, c_status, [kind |-> "status_when"])
    /\ pc' = "fix_dates"
    /\ UNCHANGED <<csvPolicy, csvClaims, claimsDF, combinedDF, summary, sqlDF, shown, out,
                   castVars, planVars, writeVars, introVars, tabVars>>

\* policyDF = fix_dates(policyDF); claimsDF = fix_dates(claimsDF)
FixDatesCell ==
    /\ pc = "fix_dates"
    /\ policyDF' = fix_dates(policyDF)
    /\ claimsDF' = fix_dates(claimsDF)
    /\ out' = out \o FixDatesNotes(policyDF, 1) \o FixDatesNotes(claimsDF, 1)
    /\ pc' = "join"
    /\ UNCHANGED <<csvPolicy, csvClaims, combinedDF, summary, sqlDF, shown, castVars,
                   planVars, writeVars, introVars, tabVars>>

\* ./data/policy.parquet, as the Writing Data notebook writes it: the casts and
\* fix_dates applied to policy.csv.
PolicyParquet ==
    fix_dates(WithColumn(WithColumn(WithColumn(csvPolicy,
                  c_sum_insured, Cast(c_sum_insured)),
                  c_vehicle_age, Cast(c_vehicle_age)),
                  c_premium, Cast(c_premium)))

JoinLeftNames == <<c_policy, c_make, c_vehicle_age, c_sum_insured, c_start_date, c_end_date>>

JoinNames == JoinLeftNames \o <<c_premium>>

ShownNames ==
    <<c_policy, c_make, c_vehicle_age, c_sum_insured, c_incident_date, c_cost>>

\* combinedDF = policyDF.select([...]).join(claimsDF, <condition>); combinedDF.show()
JoinCell ==
    /\ pc = "join"
    /\ combinedDF' = Join(SelectNames(policyDF, JoinNames), claimsDF, "inner")
    /\ shown' = combinedDF'
    /\ pc' = "join_drop"
    /\ UNCHANGED <<csvPolicy, csvClaims, policyDF, claimsDF, summary, sqlDF, out,
                   castVars, planVars, writeVars, introVars, tabVars>>

\* The position in the join output of a column of the right table.
RightColumn(left, right, name) == Len(left.cols) + ColIndex(right, name)

\* df.show(n): the first n rows.
ShowRows(d, n) ==
    DataFrame(d.cols, d.types, SubSeq(d.rows, 1, IF Len(d.rows) < n THEN Len(d.rows) ELSE n))

\* combinedDF = policyDF.select([...]).join(claimsDF, <condition>).drop(claimsDF.policy)
\* combinedDF.show(5)
JoinDropCell ==
    /\ pc = "join_drop"
    /\ LET left == SelectNames(policyDF, JoinNames)
       IN  combinedDF' = DropColumn(Join(left, claimsDF, "inner"),
                                    RightColumn(left, claimsDF, c_policy))
    /\ shown' = ShowRows(combinedDF', 5)
    /\ pc' = "join_select"
    /\ UNCHANGED <<csvPolicy, csvClaims, policyDF, claimsDF, summary, sqlDF, out,
                   castVars, planVars, writeVars, introVars, tabVars>>

\* The inner join of the policy terms with the claims, projected: the table of
\* the cell below.
InnerProjected ==
    LET left == SelectNames(policyDF, JoinLeftNames)
    IN  SelectNames(DropColumn(Join(left, claimsDF, "inner"),
                               RightColumn(left, claimsDF, c_policy)),
                    ShownNames)

\* combinedDF = policyDF.select([...]).join(claimsDF, <condition>)
\*                      .drop(claimsDF.policy).select([...])
\* combinedDF.show(5)
JoinSelectCell ==
    /\ pc = "join_select"
    /\ combinedDF' = InnerProjected
    /\ shown' = ShowRows(combinedDF', 5)
    /\ pc' = "join_left"
    /\ UNCHANGED <<csvPolicy, csvClaims, policyDF, claimsDF, summary, sqlDF, out,
                   castVars, planVars, writeVars, introVars, tabVars>>

\* combinedDF = policyDF.select([...]).join(claimsDF, <condition>, "left")
\*                      .drop(claimsDF.policy).select([...]).show()
JoinLeftCell ==
    /\ pc = "join_left"
    /\ LET left == SelectNames(policyDF, JoinLeftNames)
       IN  shown' = SelectNames(
                        DropColumn(Join(left, claimsDF, "left"),
                                   RightColumn(left, claimsDF, c_policy)),
                        ShownNames)
    /\ combinedDF' = None
    /\ pc' = "window"
    /\ UNCHANGED <<csvPolicy, csvClaims, policyDF, claimsDF, summary, sqlDF, out,
                   castVars, planVars, writeVars, introVars, tabVars>>

WindowNames ==
    <<c_policy, c_start_date, c_policy_term, c_premium, c_total_premium, c_policy_id>>

\* policyDF = policyDF.withColumn("policy_term", rank().over(...))
\*                    .withColumn("total_premium", F.sum("premium").over(...))
\*                    .withColumn("policy_id", concat(policyDF.policy, lit("~"), col("policy_term")))
\* policyDF.select([...]).show()
WindowCell ==
    /\ pc = "window"
    /\ policyDF' =
          WithConcat(
              WithRunningSum(WithRank(policyDF, c_policy_term, c_policy, c_start_date),
                             c_total_premium, c_premium, c_policy, c_start_date),
              c_policy_id, c_policy, <<"~">>, c_policy_term)
    /\ shown' = SelectNames(policyDF', WindowNames)
    /\ pc' = "summary"
    /\ UNCHANGED <<csvPolicy, csvClaims, claimsDF, combinedDF, summary, sqlDF, out,
                   castVars, planVars, writeVars, introVars, tabVars>>

\* summary = policyDF.groupBy("status").sum("sum_insured")
\*                   .withColumnRenamed("sum(sum_insured)", "total_insured")
\* summary.show()
SummaryCell ==
    /\ pc = "summary"
    /\ summary' = WithColumnRenamed(GroupBySum(policyDF, c_status, c_sum_insured),
                                    SumName(c_sum_insured), c_total_insured)
    /\ shown' = summary'
    /\ pc' = "crosstab"
    /\ UNCHANGED <<csvPolicy, csvClaims, policyDF, claimsDF, combinedDF, sqlDF, out,
                   castVars, planVars, writeVars, introVars, tabVars>>

\* policyDF.crosstab("status", "make").show(); the engine hands the pair counts
\* over in an order of its own.
CrosstabCell ==
    /\ pc = "crosstab"
    /\ \E reversed \in BOOLEAN :
          LET counts == PairCounts(policyDF, ColIndex(policyDF, c_status),
                                   ColIndex(policyDF, c_make))
          IN  shown' = Crosstab(c_status, c_make,
                                IF reversed THEN Reverse(counts) ELSE counts)
    /\ pc' = "ctab"
    /\ UNCHANGED <<csvPolicy, csvClaims, policyDF, claimsDF, combinedDF, summary, sqlDF, out,
                   castVars, planVars, writeVars, introVars, tabVars>>

\* ctabDF = policyDF.crosstab("status", "make")
\* ctabDF = ctabDF.select([col(x).alias(x.lower()) for x in ctabDF.columns])
\*                .withColumnRenamed("status_make", "status").show()
\* show() displays the table and returns None.
CtabCell ==
    /\ pc = "ctab"
    /\ \E reversed \in BOOLEAN :
          LET counts == PairCounts(policyDF, ColIndex(policyDF, c_status),
                                   ColIndex(policyDF, c_make))
              ctab == Crosstab(c_status, c_make,
                               IF reversed THEN Reverse(counts) ELSE counts)
          IN  shown' = WithColumnRenamed(SelectLower(ctab),
                                         c_status \o <<"_">> \o c_make, c_status)
    /\ ctabDF' = None
    /\ pc' = "sql"
    /\ UNCHANGED <<csvPolicy, csvClaims, policyDF, claimsDF, combinedDF, summary, sqlDF,
                   out, castVars, planVars, writeVars, introVars>>

\* df = spark.sql("SELECT policy, make, CASE ... END AS status FROM parquet...
\*                 ORDER BY policy, start_date")
SqlCell ==
    /\ pc = "sql"
    /\ sqlDF' = Select(OrderBy(PolicyParquet, <<c_policy, c_start_date>>),
                       <<Col(c_policy), Col(c_make),
                         [kind |-> "status_case", alias |-> c_status]>>)
    /\ shown' = sqlDF'
    /\ pc' = "done"
    /\ UNCHANGED <<csvPolicy, csvClaims, policyDF, claimsDF, combinedDF, summary, out,
                   castVars, planVars, writeVars, introVars, tabVars>>

Next ==
    \/ ReadCell \/ StatusCell \/ FixDatesCell \/ JoinCell \/ JoinDropCell
    \/ JoinSelectCell
    \/ JoinLeftCell
    \/ WindowCell \/ SummaryCell \/ CrosstabCell \/ CtabCell \/ SqlCell

Spec == Init /\ [][Next]_vars

(***************************************************************************)
(* Properties of the notebook cells (checked under Spec).                  *)
(***************************************************************************)
Count(seq, x) == Cardinality({i \in 1..Len(seq) : seq[i] = x})

\* The two sequences hold the same rows the same number of times.
SameRows(s, t) ==
    /\ Len(s) = Len(t)
    /\ \A i \in 1..Len(s) : Count(s, s[i]) = Count(t, s[i])

Cell(d, r, name) == d.rows[r][ColIndex(d, name)]

\* The states in which policyDF has its status column and still has its rows in
\* the order of the file (the window functions reorder them).
HasStatus ==
    pc \in {"fix_dates", "join", "join_drop", "join_select", "join_left", "window"}

InTerm(P, p, C, c) ==
    LET policy == p[ColIndex(P, c_policy)]
        start == p[ColIndex(P, c_start_date)]
        end == p[ColIndex(P, c_end_date)]
        incident == c[ColIndex(C, c_incident_date)]
    IN  /\ ~IsNull(policy) /\ ~IsNull(start) /\ ~IsNull(end) /\ ~IsNull(incident)
        /\ policy = c[ColIndex(C, c_policy)]
        /\ start.v <= incident.v
        /\ incident.v <= end.v

IsExample == csvPolicy.rows = ExamplePolicies /\ csvClaims.rows = ExampleClaims

\* C5: the inner join holds one row for each (policy row, claim row) pair with
\* equal policy and start_date <= incident_date <= end_date, both bounds
\* inclusive, and no other row; on the example data these are 4 rows, one of
\* them CAR0001's term 2020-01-01..2020-12-31 with the claim of 2020-06-05.
InnerJoinExact ==
    pc = "join_drop" =>
        LET P == SelectNames(policyDF, JoinNames)
            C == claimsDF
            all == (1..Len(P.rows)) \X (1..Len(C.rows))
            pairs == {x \in all : InTerm(P, P.rows[x[1]], C, C.rows[x[2]])}
        IN  /\ combinedDF.cols = JoinNames \o ClaimCols
            /\ Len(combinedDF.rows) = Cardinality(pairs)
            /\ \A x \in all :
                  Count(combinedDF.rows, P.rows[x[1]] \o C.rows[x[2]]) =
                      Cardinality({y \in pairs : /\ P.rows[y[1]] = P.rows[x[1]]
                                                  /\ C.rows[y[2]] = C.rows[x[2]]})
            /\ IsExample =>
                  /\ Len(combinedDF.rows) = 4
                  /\ Count(combinedDF.rows,
                           <<StrCell(Car(1)), StrCell(TOYOTA), IntCell(3), IntCell(12000),
                             DateCell(20200101), DateCell(20201231), IntCell(800),
                             StrCell(Car(1)), DateCell(20200605), IntCell(5000)>>) = 1

\* Witness of C5: the inner join ran on a policy row with a claim on the first
\* day of its term and a claim on the last day, and on a pair that is no match.
InnerJoinWitness ==
    /\ pc = "join_drop"
    /\ \E r \in 1..Len(combinedDF.rows) :
          Cell(combinedDF, r, c_incident_date) = Cell(combinedDF, r, c_start_date)
    /\ \E r \in 1..Len(combinedDF.rows) :
          Cell(combinedDF, r, c_incident_date) = Cell(combinedDF, r, c_end_date)
    /\ Len(combinedDF.rows) < Len(policyDF.rows) * Len(claimsDF.rows)

\* The first four cells of a row: policy, make, vehicle_age, sum_insured.
Key4(row) == SubSeq(row, 1, 4)

\* C6: in left mode every policy row appears at least once in the join output
\* (as often as it has matching claims), and a policy row that no claim matches
\* appears exactly once, with incident_date and cost NULL; on the example data
\* all 16 policy rows appear, 12 of them with NULL claim columns.
LeftJoinComplete ==
    pc = "window" =>
        LET C == claimsDF
            nP == Len(policyDF.rows)
            hits(i) == {j \in 1..Len(C.rows) : InTerm(policyDF, policyDF.rows[i], C, C.rows[j])}
            bare == SelectSeq(shown.rows, LAMBDA row : IsNull(row[5]) /\ IsNull(row[6]))
        IN  /\ shown.cols = ShownNames
            /\ \A i \in 1..nP :
                  /\ Cardinality({r \in 1..Len(shown.rows) :
                                     Key4(shown.rows[r]) = Key4(policyDF.rows[i])}) >=
                        Cardinality({k \in 1..nP :
                                        Key4(policyDF.rows[k]) = Key4(policyDF.rows[i])})
                  /\ Count(bare, Key4(policyDF.rows[i]) \o <<Null, Null>>) =
                        Cardinality({k \in 1..nP :
                                        /\ Key4(policyDF.rows[k]) = Key4(policyDF.rows[i])
                                        /\ hits(k) = {}})
            /\ IsExample => Len(shown.rows) = 16 /\ Len(bare) = 12

\* Witness of C6: the left join ran on a policy row that no claim matches and on
\* one that a claim matches.
LeftJoinWitness ==
    /\ pc = "window"
    /\ \E r \in 1..Len(shown.rows) : IsNull(shown.rows[r][5])
    /\ \E r \in 1..Len(shown.rows) : ~IsNull(shown.rows[r][5])
    /\ Len(claimsDF.rows) > 0

\* Whether row i of policyDF has no start_date or no end_date.
NoTerm(i) ==
    IsNull(Cell(policyDF, i, c_start_date)) \/ IsNull(Cell(policyDF, i, c_end_date))

\* C13: a policy row without start_date or end_date and a claim row without
\* incident_date or policy match nothing, and the join does not fail on them:
\* the inner join has no row of them, the left join has such a policy row once,
\* with NULL claim columns, and no claim of such a claim row.
NullComparandNoMatch ==
    /\ pc = "join_drop" =>
          \A r \in 1..Len(combinedDF.rows) :
              /\ ~IsNull(Cell(combinedDF, r, c_start_date))
              /\ ~IsNull(Cell(combinedDF, r, c_end_date))
              /\ ~IsNull(Cell(combinedDF, r, c_incident_date))
              /\ ~IsNull(combinedDF.rows[r][1])
              /\ ~IsNull(combinedDF.rows[r][Len(JoinNames) + 1])
    /\ pc = "window" =>
          /\ \A i \in 1..Len(policyDF.rows) :
                LET same == {k \in 1..Len(policyDF.rows) :
                                Key4(policyDF.rows[k]) = Key4(policyDF.rows[i])}
                IN  (\A k \in same : NoTerm(k)) =>
                        /\ Count(shown.rows, Key4(policyDF.rows[i]) \o <<Null, Null>>) =
                              Cardinality(same)
                        /\ Cardinality({r \in 1..Len(shown.rows) :
                                           Key4(shown.rows[r]) = Key4(policyDF.rows[i])}) =
                              Cardinality(same)
          /\ \A r \in 1..Len(shown.rows) :
                \/ IsNull(shown.rows[r][5]) /\ IsNull(shown.rows[r][6])
                \/ \E c \in 1..Len(claimsDF.rows) :
                      /\ ~IsNull(Cell(claimsDF, c, c_policy))
                      /\ ~IsNull(Cell(claimsDF, c, c_incident_date))
                      /\ claimsDF.rows[c] =
                            <<shown.rows[r][1], shown.rows[r][5], shown.rows[r][6]>>

\* Witness of C13: both joins have run on a policy row without start_date, one
\* without end_date, a claim without incident_date, a claim without policy and
\* a pair that matches.
NullComparandWitness ==
    /\ pc = "window"
    /\ \E i \in 1..Len(policyDF.rows) : IsNull(Cell(policyDF, i, c_start_date))
    /\ \E i \in 1..Len(policyDF.rows) : IsNull(Cell(policyDF, i, c_end_date))
    /\ \E c \in 1..Len(claimsDF.rows) : IsNull(Cell(claimsDF, c, c_incident_date))
    /\ \E c \in 1..Len(claimsDF.rows) : IsNull(Cell(claimsDF, c, c_policy))
    /\ \E r \in 1..Len(shown.rows) : ~IsNull(shown.rows[r][5])
    /\ combinedDF = None

AfterWindow == pc \in {"summary", "crosstab", "ctab", "sql", "done"}

\* The rows of policyDF of the policy of row r.
SamePolicy(r) ==
    {k \in 1..Len(policyDF.rows) : Cell(policyDF, k, c_policy) = Cell(policyDF, r, c_policy)}

\* The sum of f over the set S.
RECURSIVE SumOver(_, _)
SumOver(S, f) ==
    IF S = {} THEN 0
    ELSE LET x == CHOOSE x \in S : TRUE IN f[x] + SumOver(S \ {x}, f)

\* The sum of the column name over the rows S of policyDF, as sum() gives it.
SumOfColumn(S, name) ==
    IF \A k \in S : IsNull(Cell(policyDF, k, name)) THEN Null
    ELSE LongCell(SumOver(S, [k \in S |-> Cell(policyDF, k, name).v]))

\* C7: policy_term is the competition rank of a row within its policy by
\* start_date ascending - 1 plus the number of rows of the same policy that
\* come strictly earlier by start_date (a row without start_date comes before
\* every dated row) - so tied rows share a rank and the next rank skips the
\* tied count; CAR0001's rows get 1, 2, 3.
RankIsCompetition ==
    AfterWindow =>
        /\ Len(policyDF.rows) = Len(csvPolicy.rows)
        /\ \A r \in 1..Len(policyDF.rows) :
              Cell(policyDF, r, c_policy_term) =
                  IntCell(1 + Cardinality({k \in SamePolicy(r) :
                                              CellLess(Cell(policyDF, k, c_start_date),
                                                       Cell(policyDF, r, c_start_date))}))
        /\ IsExample =>
              \A x \in {<<20180101, 1>>, <<20190101, 2>>, <<20200101, 3>>} :
                  Cardinality({r \in 1..Len(policyDF.rows) :
                                  /\ Cell(policyDF, r, c_policy) = StrCell(Car(1))
                                  /\ Cell(policyDF, r, c_start_date) = DateCell(x[1])
                                  /\ Cell(policyDF, r, c_policy_term) = IntCell(x[2])}) = 1

\* Witness of C7: two rows of a policy tied on start_date have rank 1 and the
\* row after them has rank 3.
RankTieWitness ==
    /\ AfterWindow
    /\ \E r \in 1..Len(policyDF.rows) : \E k \in SamePolicy(r) \ {r} : \E n \in SamePolicy(r) :
          /\ Cell(policyDF, r, c_start_date) = Cell(policyDF, k, c_start_date)
          /\ Cell(policyDF, r, c_policy_term) = IntCell(1)
          /\ Cell(policyDF, k, c_policy_term) = IntCell(1)
          /\ Cell(policyDF, n, c_policy_term) = IntCell(3)

\* C8: total_premium of a row is the sum of premium over the rows of the same
\* policy that do not come later by start_date (a row without start_date comes
\* before every dated row), so rows tied on start_date get the same total, which
\* includes every tied row; CAR0001's totals are 1000, 1900, 2700.
RunningTotalInclusive ==
    AfterWindow =>
        /\ \A r \in 1..Len(policyDF.rows) :
              Cell(policyDF, r, c_total_premium) =
                  SumOfColumn({k \in SamePolicy(r) :
                                  ~CellLess(Cell(policyDF, r, c_start_date),
                                            Cell(policyDF, k, c_start_date))},
                              c_premium)
        /\ IsExample =>
              \A x \in {<<1000, 1000>>, <<900, 1900>>, <<800, 2700>>} :
                  Cardinality({r \in 1..Len(policyDF.rows) :
                                  /\ Cell(policyDF, r, c_policy) = StrCell(Car(1))
                                  /\ Cell(policyDF, r, c_premium) = IntCell(x[1])
                                  /\ Cell(policyDF, r, c_total_premium) = LongCell(x[2])}) = 1

\* Witness of C8: two rows of a policy tied on start_date both have the sum of
\* their two premiums as total, and a later row of the policy has more.
RunningTotalTieWitness ==
    /\ AfterWindow
    /\ \E r \in 1..Len(policyDF.rows) : \E k \in SamePolicy(r) \ {r} : \E n \in SamePolicy(r) :
          /\ Cell(policyDF, r, c_start_date) = Cell(policyDF, k, c_start_date)
          /\ Cell(policyDF, r, c_total_premium) =
                LongCell(Cell(policyDF, r, c_premium).v + Cell(policyDF, k, c_premium).v)
          /\ Cell(policyDF, k, c_total_premium) = Cell(policyDF, r, c_total_premium)
          /\ Cell(policyDF, n, c_total_premium).v > Cell(policyDF, r, c_total_premium).v

HasSummary == pc \in {"crosstab", "ctab", "sql", "done"}

\* The rows of policyDF with the status s.
WithStatus(s) == {k \in 1..Len(policyDF.rows) : Cell(policyDF, k, c_status) = s}

StatusValues == {Cell(policyDF, k, c_status) : k \in 1..Len(policyDF.rows)}

\* C9: summary has exactly one row per distinct status of policyDF, holding the
\* sum of sum_insured over exactly the rows with that status; on the example
\* data these are Renewal 107500 and New Business 199000.
SummaryExact ==
    HasSummary =>
        /\ summary.cols = <<c_status, c_total_insured>>
        /\ Len(summary.rows) = Cardinality(StatusValues)
        /\ \A s \in StatusValues :
              Count(summary.rows, <<s, SumOfColumn(WithStatus(s), c_sum_insured)>>) = 1
        /\ IsExample =>
              SameRows(summary.rows, <<<<StrCell(Renewal), LongCell(107500)>>,
                                       <<StrCell(NewBusiness), LongCell(199000)>>>>)

\* Witness of C9: the summary has two rows, one of them for a status that
\* several rows have, with differing sums.
SummaryWitness ==
    /\ HasSummary
    /\ Len(summary.rows) = 2
    /\ \E s \in StatusValues : Cardinality(WithStatus(s)) > 1
    /\ summary.rows[1][2] # summary.rows[2][2]

\* The crosstab is on display.
HasCrosstab == pc = "ctab"

MakeValues == {Cell(policyDF, k, c_make) : k \in 1..Len(policyDF.rows)}

\* The number of rows of policyDF with status s and make m.
PairCount(s, m) ==
    Cardinality({k \in WithStatus(s) : Cell(policyDF, k, c_make) = m})

\* The cells of the crosstab for status s and make m: those in a row labelled s
\* and the column named after m.
CrosstabCells(s, m) ==
    {shown.rows[k][n] : k \in {k \in 1..Len(shown.rows) : shown.rows[k][1] = s},
                        n \in {n \in 2..Len(shown.cols) : shown.cols[n] = CleanElement(m)}}

\* C10: in the crosstab of status by make, for every status and make of the
\* source the cell of that pair holds the number of source rows with that
\* status and make: 0, not NULL and not a missing cell, when there is no such row.
CrosstabCounts ==
    HasCrosstab =>
        \A s \in StatusValues : \A m \in MakeValues :
            CrosstabCells(s, m) = {LongCell(PairCount(s, m))}

\* What holds of the crosstab: every pair has one cell, which is 0 when no row
\* has the status of the pair and a make with the text of the pair's make, and
\* otherwise the count of one of the makes with that text; the example data
\* gives MAZDA 2 for New Business and 0 for Renewal.
CrosstabCountsByText ==
    HasCrosstab =>
        /\ \A s \in StatusValues : \A m \in MakeValues :
              \E n \in {PairCount(s, x) : x \in {x \in MakeValues :
                                                    /\ CleanElement(x) = CleanElement(m)
                                                    /\ \/ PairCount(s, x) > 0
                                                       \/ \A y \in MakeValues :
                                                             CleanElement(y) = CleanElement(m)
                                                                 => PairCount(s, y) = 0}} :
                  CrosstabCells(s, m) = {LongCell(n)}
        /\ IsExample =>
              /\ CrosstabCells(StrCell(NewBusiness), StrCell(MAZDA)) = {LongCell(2)}
              /\ CrosstabCells(StrCell(Renewal), StrCell(MAZDA)) = {LongCell(0)}

\* Witness of C10: the crosstab is of rows of one status of which some have no
\* make and some the make "null": the two pairs share a cell.
CrosstabSharedCell ==
    /\ HasCrosstab
    /\ \E s \in StatusValues :
          PairCount(s, Null) > 0 /\ PairCount(s, StrCell(NullText)) > 0

\* The columns of the crosstab after the first, by position.
ValueColumns == 2..Len(shown.cols)

\* The first column is status_make, there is one row for each status, and the
\* names of the value columns ascend in the order of their characters.
CrosstabFrame ==
    /\ shown.cols[1] = c_status \o <<"_">> \o c_make
    /\ Len(shown.rows) = Cardinality(StatusValues)
    /\ \A s \in StatusValues :
          Cardinality({k \in 1..Len(shown.rows) : shown.rows[k][1] = s}) = 1
    /\ \A n \in ValueColumns : \A m \in ValueColumns :
          n < m => StrLess(shown.cols[n], shown.cols[m])

\* C20 as stated: the crosstab has one row for each status, status_make as the
\* first column and one value column for each make of the source, the value
\* columns in ascending order of the makes.
CrosstabShape ==
    HasCrosstab =>
        /\ CrosstabFrame
        /\ Cardinality(ValueColumns) = Cardinality(MakeValues)
        /\ \A m \in MakeValues :
              Cardinality({n \in ValueColumns : shown.cols[n] = CleanElement(m)}) = 1

\* What holds: the value columns are one for each text of a make, the text of
\* NULL being "null"; two makes with one text have one column.
CrosstabShapeByText ==
    HasCrosstab =>
        /\ CrosstabFrame
        /\ Cardinality(ValueColumns) = Cardinality({CleanElement(m) : m \in MakeValues})
        /\ \A m \in MakeValues :
              Cardinality({n \in ValueColumns : shown.cols[n] = CleanElement(m)}) = 1

\* A crosstab of rows without make and rows of make "null": one value column
\* for the two makes.
CrosstabMergedColumn ==
    /\ HasCrosstab
    /\ Null \in MakeValues
    /\ StrCell(NullText) \in MakeValues
    /\ Cardinality(ValueColumns) < Cardinality(MakeValues)

(***************************************************************************)
(* The Explain Plan notebook: policyDF built by a chain of withColumn,     *)
(* otherDF built by one select, the assert that compares them, and         *)
(* otherDF built again by fix_types.                                       *)
(***************************************************************************)
\* Contents of policy.csv for it: well-formed fields, text that is no number, a
\* date with month 13, empty fields, a date followed by another character.
PlanLines ==
    {[PolicyLine(1, TOYOTA, 1, 100, 20200101, 20200101, 20200630, 10)
         EXCEPT ![3] = t[1], ![6] = t[2], ![8] = t[3]] :
        t \in {NumText(1), StrCell(<<"x">>)}
               \X {DateText(20200101), DateText(20201301), Null,
                   StrCell(Dec(20200101, 8) \o <<"x">>)}
               \X {NumText(10), Null}}

PlanInit ==
    /\ \/ csvPolicy = ReadCsv(PolicyCols, ExamplePolicies)
       \/ \E n \in 0..MaxRows : \E lines \in [1..n -> PlanLines] :
             csvPolicy = ReadCsv(PolicyCols, lines)
    /\ csvClaims = ReadCsv(ClaimCols, ExampleClaims)
    /\ pc = "plan_read"
    /\ policyDF = Unset /\ claimsDF = Unset /\ combinedDF = Unset
    /\ summary = Unset /\ sqlDF = Unset /\ shown = Unset
    /\ otherDF = Unset
    /\ spark = Unset /\ stopped = {} /\ frames = Unset /\ ran = Unset
    /\ ctabDF = Unset
    /\ files = Unset /\ job = Unset /\ partitions = Unset /\ parquetDF = Unset
    /\ out = <<>>
    /\ input = Unset /\ df = Unset /\ prev = Unset /\ hist = <<>>

\* policyDF = spark.read...csv("./data/policy.csv").withColumn(...) ...
\* claimsDF = ...; policyDF = fix_dates(policyDF); claimsDF = fix_dates(claimsDF)
PlanReadCell ==
    /\ pc = "plan_read"
    /\ LET policy == WithColumn(WithColumn(WithColumn(csvPolicy,
                          c_sum_insured, Cast(c_sum_insured)),
                          c_vehicle_age, Cast(c_vehicle_age)),
                          c_premium, Cast(c_premium))
           claims == WithColumn(csvClaims, c_cost, Cast(c_cost))
       IN  /\ policyDF' = fix_dates(policy)
           /\ claimsDF' = fix_dates(claims)
           /\ out' = out \o FixDatesNotes(policy, 1) \o FixDatesNotes(claims, 1)
    /\ pc' = "plan_select"
    /\ UNCHANGED <<csvPolicy, csvClaims, combinedDF, summary, sqlDF, shown, castVars,
                   planVars, writeVars, introVars, tabVars>>

ToDateAs(name, alias) == [kind |-> "to_date", name |-> name, alias |-> alias]

\* The select list of otherDF; its three dates all have the alias "inception_date".
OtherSelect ==
    <<Col(c_policy), Col(c_make), Cast(c_vehicle_age), Cast(c_sum_insured),
      ToDateAs(c_inception_date, c_inception_date),
      ToDateAs(c_start_date, c_inception_date),
      ToDateAs(c_end_date, c_inception_date),
      Cast(c_premium)>>

\* otherDF = spark.read...csv("./data/policy.csv").select(...)
PlanSelectCell ==
    /\ pc = "plan_select"
    /\ otherDF' = Select(csvPolicy, OtherSelect)
    /\ pc' = "plan_assert"
    /\ UNCHANGED <<csvPolicy, csvClaims, policyDF, claimsDF, combinedDF, summary, sqlDF,
                   shown, out, castVars, writeVars, introVars, tabVars>>

\* The Python value collect() gives for a cell.
PyValue(c) ==
    CASE IsNull(c) -> None
      [] c.t \in {"int", "long"} -> [int |-> c.v]
      [] c.t = "date" -> [date |-> <<c.v \div 10000, (c.v \div 100) % 100, c.v % 100>>]
      [] OTHER -> [str |-> c.v]

\* df.collect(): the rows, each a tuple of Python values (two Row objects are
\* equal when their values are, whatever the names of their fields).
Collect(d) ==
    [r \in 1..Len(d.rows) |-> AsSeq([k \in 1..Len(d.rows[r]) |-> PyValue(d.rows[r][k])])]

\* Whether an action on all of d raises: a cell of d cannot be computed.
Raises(d) == \E r \in 1..Len(d.rows) : \E k \in 1..Len(d.rows[r]) : d.rows[r][k] = Failure

\* assert policyDF.collect() == otherDF.collect()
PlanAssertCell ==
    /\ pc = "plan_assert"
    /\ pc' = IF Raises(policyDF) \/ Raises(otherDF) THEN "SparkUpgradeException"
             ELSE IF Collect(policyDF) = Collect(otherDF) THEN "plan_fix_types"
             ELSE "AssertionError"
    /\ UNCHANGED <<csvPolicy, csvClaims, policyDF, claimsDF, combinedDF, summary, sqlDF,
                   shown, out, castVars, planVars, writeVars, introVars, tabVars>>

\* otherDF = spark.read...csv("./data/policy.csv"); otherDF = fix_types(otherDF)
PlanFixTypesCell ==
    /\ pc = "plan_fix_types"
    /\ otherDF' = fix_types(csvPolicy)
    /\ out' = out \o FixTypesNotes(csvPolicy, 1)
    /\ pc' = "plan_done"
    /\ UNCHANGED <<csvPolicy, csvClaims, policyDF, claimsDF, combinedDF, summary, sqlDF,
                   shown, castVars, writeVars, introVars, tabVars>>

PlanNext == PlanReadCell \/ PlanSelectCell \/ PlanAssertCell \/ PlanFixTypesCell

SpecPlan == PlanInit /\ [][PlanNext]_vars

\* C11: for every policy.csv, the rows collected from policyDF - built by the
\* chain of withColumn steps, three integer casts and then fix_dates on the
\* three date columns in turn - equal, row by row and position by position, the
\* rows collected from otherDF, built by one select of the same eight
\* expressions; the assert of the notebook never fails.
ChainEqualsSelect ==
    /\ (pc = "plan_assert" /\ ~Raises(policyDF) /\ ~Raises(otherDF)) =>
          /\ Len(Collect(policyDF)) = Len(csvPolicy.rows)
          /\ Len(Collect(otherDF)) = Len(csvPolicy.rows)
          /\ \A r \in 1..Len(csvPolicy.rows) :
                /\ Len(Collect(policyDF)[r]) = 8
                /\ Len(Collect(otherDF)[r]) = 8
                /\ \A k \in 1..8 : Collect(policyDF)[r][k] = Collect(otherDF)[r][k]
    /\ pc # "AssertionError"

\* Witness of C11: the assert has compared two tables of several rows, with a
\* cell that is NULL after its cast and a cell that is a date.
ChainEqualsSelectWitness ==
    /\ pc = "plan_fix_types"
    /\ Len(policyDF.rows) > 1
    /\ \E r \in 1..Len(otherDF.rows) :
          /\ IsNull(otherDF.rows[r][3])
          /\ IsNull(otherDF.rows[r][6])
          /\ otherDF.rows[r][7] = DateCell(20200630)

(***************************************************************************)
(* The Writing Data notebook: the two tables are read, written as parquet  *)
(* directories (claimsDF after repartition(2)), the directories are        *)
(* listed, and policy.parquet is read back.  A write is a job of one task  *)
(* per partition: each task writes its part file under _temporary, the     *)
(* job commit moves the part files into the directory one by one and then  *)
(* creates _SUCCESS; a failing task aborts the job.                        *)
(***************************************************************************)
NumPartitions == 2

\* A directory: whether it holds _SUCCESS, its part files (each with the number
\* of its partition, the schema and its rows), and the part files under
\* _temporary.
Directory(marker, units, staged) == [marker |-> marker, units |-> units, staged |-> staged]

EmptyDirectory == Directory(FALSE, {}, {})

Unit(k, d, rows) == [part |-> k, cols |-> d.cols, types |-> d.types, rows |-> AsSeq(rows)]

\* What an earlier run of the notebook has left in a directory.
OldDirectory ==
    Directory(TRUE, {Unit(0, ReadCsv(<<c_policy>>, <<>>), <<<<StrCell(Car(9))>>>>)}, {})

\* Mutant of WritingTasks: every task writes a part file.
WritingTasksAll(parts) == 0..(Len(parts) - 1)

\* The partitions with a part file: a task without rows writes none, except the
\* task of partition 0.
WritingTasks(parts) == {k \in 0..(Len(parts) - 1) : k = 0 \/ parts[k + 1] # <<>>}

\* The rows at the positions in S, in their order.
RowsAt(rows, S) ==
    LET at == SelectSeq([i \in 1..Len(rows) |-> i], LAMBDA i : i \in S)
    IN  [j \in 1..Len(at) |-> rows[at[j]]]

\* The ways in which repartition(2) can deal n rows: the positions of the rows
\* that go to partition 0, half of them (the order in which the engine deals
\* the rows is its own).
Deals(n) == {S \in SUBSET (1..n) : 2 * Cardinality(S) \in {n - 1, n, n + 1}}

\* df.repartition(2) dealing the rows at the positions in first to partition 0.
RoundRobin(rows, first) ==
    <<AsSeq(RowsAt(rows, first)), AsSeq(RowsAt(rows, (1..Len(rows)) \ first))>>

\* The rows of a table that has the given partitions.
RECURSIVE RowsOf(_)
RowsOf(parts) == IF parts = <<>> THEN <<>> ELSE Head(parts) \o RowsOf(Tail(parts))

\* Contents of policy.csv for this notebook: whole rows, a row with fields that
\* become NULL, and a row whose start_date cannot be computed.
WriteLines ==
    {PolicyLine(1, TOYOTA, 1, 100, 20200101, 20200101, 20200630, 10),
     PolicyLine(2, FORD, 2, 250, 20200101, 20200601, 20210531, 20),
     [PolicyLine(3, TOYOTA, 1, 100, 20200101, 20200101, 20200630, 10)
         EXCEPT ![3] = StrCell(<<"x">>), ![6] = Null],
     [PolicyLine(4, TOYOTA, 1, 100, 20200101, 20200101, 20200630, 10)
         EXCEPT ![6] = StrCell(Dec(20200101, 8) \o <<"x">>)]}

WriteInit ==
    /\ \/ csvPolicy = ReadCsv(PolicyCols, ExamplePolicies)
       \/ \E n \in 0..MaxRows : \E lines \in [1..n -> WriteLines] :
             csvPolicy = ReadCsv(PolicyCols, lines)
    /\ \E claims \in ClaimTables \cup {ExampleClaims} :
          csvClaims = ReadCsv(ClaimCols, claims)
    /\ \E old \in {EmptyDirectory, OldDirectory} :
          files = [policy |-> old, claims |-> old]
    /\ job = Unset /\ partitions = Unset /\ parquetDF = Unset
    /\ pc = "write_read"
    /\ policyDF = Unset /\ claimsDF = Unset /\ combinedDF = Unset
    /\ summary = Unset /\ sqlDF = Unset /\ shown = Unset
    /\ otherDF = Unset
    /\ spark = Unset /\ stopped = {} /\ frames = Unset /\ ran = Unset
    /\ ctabDF = Unset
    /\ out = <<>>
    /\ input = Unset /\ df = Unset /\ prev = Unset /\ hist = <<>>

\* policyDF = spark.read...csv(...) ...; claimsDF = ...;
\* policyDF = fix_dates(policyDF); claimsDF = fix_dates(claimsDF)
\* A table read from one small file has one partition.
WriteReadCell ==
    /\ pc = "write_read"
    /\ LET policy == WithColumn(WithColumn(WithColumn(csvPolicy,
                          c_sum_insured, Cast(c_sum_insured)),
                          c_vehicle_age, Cast(c_vehicle_age)),
                          c_premium, Cast(c_premium))
           claims == WithColumn(csvClaims, c_cost, Cast(c_cost))
       IN  /\ policyDF' = fix_dates(policy)
           /\ claimsDF' = fix_dates(claims)
           /\ out' = out \o FixDatesNotes(policy, 1) \o FixDatesNotes(claims, 1)
    /\ partitions' = [policyDF |-> <<policyDF'.rows>>, claimsDF |-> <<claimsDF'.rows>>]
    /\ pc' = "write_policy"
    /\ UNCHANGED <<csvPolicy, csvClaims, combinedDF, summary, sqlDF, shown, castVars,
                   planVars, introVars, tabVars, files, job, parquetDF>>

\* The start of df.write.mode('overwrite').parquet(dir): the job is set up and
\* begins with the removal of what the directory holds.
StartWrite(dir, d, parts) ==
    /\ job' = [dir |-> dir, table |-> d, parts |-> parts, phase |-> "delete"]
    /\ UNCHANGED files

\* policyDF.write.mode('overwrite').parquet("./data/policy.parquet")
WritePolicyCell ==
    /\ pc = "write_policy"
    /\ StartWrite("policy", policyDF, partitions.policyDF)
    /\ pc' = "writing_policy"
    /\ UNCHANGED <<csvPolicy, csvClaims, policyDF, claimsDF, combinedDF, summary, sqlDF,
                   shown, out, castVars, planVars, introVars, tabVars, partitions, parquetDF>>

\* claimsDF = claimsDF.repartition(2)
\* claimsDF.write.mode('overwrite').parquet("./data/claims.parquet")
WriteClaimsCell ==
    /\ pc = "write_claims"
    /\ \E first \in Deals(Len(claimsDF.rows)) :
          LET parts == RoundRobin(claimsDF.rows, first)
          IN  /\ claimsDF' = DataFrame(claimsDF.cols, claimsDF.types, RowsOf(parts))
              /\ partitions' = [partitions EXCEPT !.claimsDF = parts]
              /\ StartWrite("claims", claimsDF', parts)
    /\ pc' = "writing_claims"
    /\ UNCHANGED <<csvPolicy, csvClaims, policyDF, combinedDF, summary, sqlDF,
                   shown, out, castVars, planVars, introVars, tabVars, parquetDF>>

\* mode('overwrite'): the files of the directory are removed one by one, in the
\* order in which the file system lists them; the tasks start once it is empty.
DeleteOld ==
    /\ job # Unset
    /\ job.phase = "delete"
    /\ \/ /\ files[job.dir].marker
          /\ files' = [files EXCEPT ![job.dir].marker = FALSE]
          /\ UNCHANGED job
       \/ /\ \E u \in files[job.dir].units :
                files' = [files EXCEPT ![job.dir].units = @ \ {u}]
          /\ UNCHANGED job
       \/ /\ files[job.dir] = EmptyDirectory
          /\ job' = [job EXCEPT !.phase = "run"]
          /\ UNCHANGED files
    /\ UNCHANGED <<csvPolicy, csvClaims, pc, policyDF, claimsDF, combinedDF, summary,
                   sqlDF, shown, out, castVars, planVars, introVars, tabVars,
                   partitions, parquetDF>>

\* A task of the running job writes its part file under _temporary.
TaskWrites ==
    /\ job # Unset
    /\ job.phase = "run"
    /\ files[job.dir].units = {}
    /\ \E k \in WritingTasks(job.parts) :
          /\ \A u \in files[job.dir].staged : u.part # k
          /\ ~Raises(DataFrame(job.table.cols, job.table.types, job.parts[k + 1]))
          /\ files' = [files EXCEPT ![job.dir].staged =
                           @ \cup {Unit(k, job.table, job.parts[k + 1])}]
    /\ UNCHANGED <<csvPolicy, csvClaims, pc, policyDF, claimsDF, combinedDF, summary,
                   sqlDF, shown, out, castVars, planVars, introVars, tabVars, job,
                   partitions, parquetDF>>

\* A task of the running job fails (a cell that cannot be computed, or the
\* machine): the job is aborted, _temporary is removed and the cell raises.
TaskFails ==
    /\ job # Unset
    /\ job.phase = "run"
    /\ files[job.dir].units = {}
    /\ \E k \in WritingTasks(job.parts) :
          \A u \in files[job.dir].staged : u.part # k
    /\ files' = [files EXCEPT ![job.dir].staged = {}]
    /\ job' = [job EXCEPT !.phase = "failed"]
    /\ pc' = "write_failed"
    /\ UNCHANGED <<csvPolicy, csvClaims, policyDF, claimsDF, combinedDF, summary,
                   sqlDF, shown, out, castVars, planVars, introVars, tabVars,
                   partitions, parquetDF>>

\* The job commit moves a part file from _temporary into the directory, once
\* every task has written its file.
MovePart ==
    /\ job # Unset
    /\ job.phase = "run"
    /\ \A k \in WritingTasks(job.parts) :
          \E u \in files[job.dir].staged \cup files[job.dir].units : u.part = k
    /\ \E u \in files[job.dir].staged :
          files' = [files EXCEPT ![job.dir].staged = @ \ {u},
                                 ![job.dir].units = @ \cup {u}]
    /\ UNCHANGED <<csvPolicy, csvClaims, pc, policyDF, claimsDF, combinedDF, summary,
                   sqlDF, shown, out, castVars, planVars, introVars, tabVars, job,
                   partitions, parquetDF>>

\* The job commit ends: _SUCCESS is created and the cell returns.
WriteMarker ==
    /\ job # Unset
    /\ job.phase = "run"
    /\ files[job.dir].staged = {}
    /\ \A k \in WritingTasks(job.parts) : \E u \in files[job.dir].units : u.part = k
    /\ files' = [files EXCEPT ![job.dir].marker = TRUE]
    /\ job' = [job EXCEPT !.phase = "done"]
    /\ pc' = IF job.dir = "policy" THEN "glob_policy" ELSE "glob_claims"
    /\ UNCHANGED <<csvPolicy, csvClaims, policyDF, claimsDF, combinedDF, summary,
                   sqlDF, shown, out, castVars, planVars, introVars, tabVars,
                   partitions, parquetDF>>

\* sorted(glob.glob(dir + "/*")): the names of the directory, "_SUCCESS" before
\* the part files and these by their number.
Glob(d) ==
    (IF d.marker THEN <<"_SUCCESS">> ELSE <<>>) \o
    SelectSeq([k \in 1..NumPartitions |-> k - 1], LAMBDA k : \E u \in d.units : u.part = k)

\* for file in sorted(glob.glob("./data/policy.parquet/*")): print(file)
GlobPolicyCell ==
    /\ pc = "glob_policy"
    /\ shown' = Glob(files.policy)
    /\ pc' = "write_claims"
    /\ UNCHANGED <<csvPolicy, csvClaims, policyDF, claimsDF, combinedDF, summary, sqlDF,
                   out, castVars, planVars, writeVars, introVars, tabVars>>

\* for file in sorted(glob.glob("./data/claims.parquet/*")): print(file)
GlobClaimsCell ==
    /\ pc = "glob_claims"
    /\ shown' = Glob(files.claims)
    /\ pc' = "read_parquet"
    /\ UNCHANGED <<csvPolicy, csvClaims, policyDF, claimsDF, combinedDF, summary, sqlDF,
                   out, castVars, planVars, writeVars, introVars, tabVars>>

\* The orders in which the part files of a directory can be read.
Orders(units) ==
    {f \in [1..Cardinality(units) -> units] :
        \A i, j \in 1..Cardinality(units) : f[i] = f[j] => i = j}

\* Mutant of ReadParquet: every column comes back as a string column, as from
\* a CSV file.
ReadParquetUntyped(order) ==
    DataFrame(order[1].cols, [i \in 1..Len(order[1].cols) |-> "string"],
              RowsOf([i \in 1..Len(order) |-> order[i].rows]))

\* spark.read.parquet(dir) reading the part files in the given order: names and
\* types are those the files record.
ReadParquet(order) ==
    DataFrame(order[1].cols, order[1].types,
              RowsOf([i \in 1..Len(order) |-> order[i].rows]))

\* parquetDF = spark.read.parquet("./data/policy.parquet")
ReadParquetCell ==
    /\ pc = "read_parquet"
    /\ \E order \in Orders(files.policy.units) : parquetDF' = ReadParquet(order)
    /\ pc' = "write_done"
    /\ UNCHANGED <<csvPolicy, csvClaims, policyDF, claimsDF, combinedDF, summary, sqlDF,
                   shown, out, castVars, planVars, introVars, tabVars, files, job, partitions>>

WriteNext ==
    \/ WriteReadCell
    \/ WritePolicyCell
    \/ WriteClaimsCell
    \/ DeleteOld
    \/ TaskWrites
    \/ TaskFails
    \/ MovePart
    \/ WriteMarker
    \/ GlobPolicyCell
    \/ GlobClaimsCell
    \/ ReadParquetCell

SpecWrite == WriteInit /\ [][WriteNext]_vars

\* The policy table has been written; the claims table has been written.
PolicyWritten ==
    \/ pc \in {"glob_policy", "write_claims", "writing_claims", "glob_claims",
               "read_parquet", "write_done"}
    \/ pc = "write_failed" /\ job.dir = "claims"

ClaimsWritten == pc \in {"glob_claims", "read_parquet", "write_done"}

\* The numbers of the part files of a directory.
PartNumbers(d) == {u.part : u \in d.units}

\* The rows of the part files of a directory, in the order of their numbers.
UnitRows(d) ==
    RowsOf([k \in 1..NumPartitions |->
               IF k - 1 \in PartNumbers(d)
               THEN (CHOOSE u \in d.units : u.part = k - 1).rows
               ELSE <<>>])

\* The part files of d hold exactly the rows of the table, each row once and in
\* the order of the table.
HoldsRows(d, table) ==
    /\ Cardinality(d.units) = Cardinality(PartNumbers(d))
    /\ UnitRows(d) = table.rows

\* C14 as stated: a written table with n partitions has n part files, which
\* together hold exactly its rows.
UnitPerPartition ==
    /\ PolicyWritten =>
          /\ Cardinality(files.policy.units) = Len(partitions.policyDF)
          /\ HoldsRows(files.policy, policyDF)
    /\ ClaimsWritten =>
          /\ Cardinality(files.claims.units) = Len(partitions.claimsDF)
          /\ HoldsRows(files.claims, claimsDF)

\* The part files a table with the given partitions must have: one for
\* partition 0 and one for every other partition that has a row, each with
\* the rows of its partition in their order.
UnitsOfPartitions(d, parts) ==
    /\ PartNumbers(d) = {0} \cup {k \in 1..(Len(parts) - 1) : Len(parts[k + 1]) > 0}
    /\ \A u \in d.units : u.rows = parts[u.part + 1]

\* C14: a written table has one part file for its partition 0 and one for each
\* further partition that holds a row (1 for the example policy table, 2 for the
\* example claims table after repartition(2)), and the part files together
\* hold exactly the rows of the table, every row in exactly one of them.
UnitPerNonEmptyPartition ==
    /\ PolicyWritten =>
          /\ Len(partitions.policyDF) = 1
          /\ Cardinality(files.policy.units) = 1
          /\ UnitsOfPartitions(files.policy, partitions.policyDF)
          /\ HoldsRows(files.policy, policyDF)
    /\ ClaimsWritten =>
          /\ Len(partitions.claimsDF) = NumPartitions
          /\ UnitsOfPartitions(files.claims, partitions.claimsDF)
          /\ HoldsRows(files.claims, claimsDF)
          /\ csvClaims.rows = ExampleClaims =>
                Cardinality(files.claims.units) = NumPartitions

\* A claims table of one row written after repartition(2): the row is in
\* partition 0 and partition 1 has no part file.
UnitMissingWitness ==
    /\ ClaimsWritten
    /\ Len(claimsDF.rows) = 1
    /\ Len(partitions.claimsDF) = NumPartitions
    /\ PartNumbers(files.claims) = {0}
    /\ UnitRows(files.claims) = claimsDF.rows

\* The directories of the notebook.
Directories == {"policy", "claims"}

\* A write into the directory is running; the last write into it has failed.
Running(dir) == job # Unset /\ job.dir = dir /\ job.phase \in {"delete", "run"}

Failed(dir) == job # Unset /\ job.dir = dir /\ job.phase = "failed"

\* The directory holds all part files of a table written into it: of the table
\* of the last write, or of the earlier run when nothing has been written since.
AllParts(dir) ==
    IF job # Unset /\ job.dir = dir /\ job.phase # "delete"
    THEN UnitsOfPartitions(files[dir], job.parts)
    ELSE IF dir = "policy" /\ PolicyWritten
    THEN UnitsOfPartitions(files[dir], partitions.policyDF)
    ELSE files[dir].units = OldDirectory.units

\* C15 as stated: whoever sees _SUCCESS in a directory sees all part files of
\* the table, and the directory of a running or failed write shows no _SUCCESS.
MarkerMeansComplete ==
    \A dir \in Directories :
        /\ files[dir].marker => AllParts(dir)
        /\ Running(dir) \/ Failed(dir) => ~files[dir].marker

\* What holds: the write creates _SUCCESS after all of its part files are in
\* the directory, and a failed write leaves none; the _SUCCESS of an earlier
\* run stays visible while the running write removes that run's files.
MarkerOfThisWrite ==
    \A dir \in Directories :
        /\ files[dir].marker /\ ~(Running(dir) /\ job.phase = "delete") =>
              ~Running(dir) /\ AllParts(dir)
        /\ Running(dir) /\ job.phase = "run" => ~files[dir].marker
        /\ Failed(dir) => ~files[dir].marker /\ files[dir].units = {}

\* A running write into a directory that shows _SUCCESS and no part file.
StaleMarkerWitness ==
    /\ Running("policy")
    /\ files.policy.marker
    /\ files.policy.units = {}

MaxSessions == 2

\* [('Jack', 42), ('Jill', 37), ('John', 35), ('Jane', 48)], the ages.
PeopleAges == <<42, 37, 35, 48>>

\* The n-th session of the kernel.
Session(n) == [id |-> n]

\* The cells that read, transform or display data.
DataCells == {"createDataFrame", "printSchema", "show", "filter", "over40.show", "count"}

\* The cells that make Spark run a job: createDataFrame distributes the rows,
\* show and count compute them.
JobCells == {"createDataFrame", "show", "over40.show", "count"}

\* The variable a cell reads is defined.
Defined(cell) ==
    IF cell = "getOrCreate" THEN TRUE
    ELSE IF cell \in {"createDataFrame", "stop"} THEN spark # Unset
    ELSE IF cell \in {"printSchema", "show", "filter"} THEN frames.df # Unset
    ELSE frames.over40 # Unset

\* The session a cell works in: the one spark holds, or the one in which the
\* DataFrame it reads was made.
SessionOf(cell) ==
    IF cell \in {"createDataFrame", "stop"} THEN spark
    ELSE IF cell \in {"printSchema", "show", "filter"} THEN frames.df.session
    ELSE frames.over40.session

\* Mutant of Succeeds: a stopped session still runs jobs.
SucceedsStopped(cell) == Defined(cell)

\* Whether the cell runs without raising: a job needs a session that has not
\* been stopped; printSchema and filter ask nothing of the stopped context.
Succeeds(cell) ==
    /\ Defined(cell)
    /\ cell \in JobCells => SessionOf(cell) \notin stopped

\* What the run of a cell leaves in ran.
Outcome(cell) ==
    [cell |-> cell, ok |-> Succeeds(cell),
     active |-> spark # Unset /\ spark \notin stopped,
     live |-> Defined(cell) /\ cell # "getOrCreate" /\ SessionOf(cell) \notin stopped]

IntroInit ==
    /\ spark = Unset /\ stopped = {} /\ ran = Unset
    /\ ctabDF = Unset
    /\ frames = [df |-> Unset, over40 |-> Unset]
    /\ csvPolicy = Unset /\ csvClaims = Unset /\ pc = "intro"
    /\ policyDF = Unset /\ claimsDF = Unset /\ combinedDF = Unset
    /\ summary = Unset /\ sqlDF = Unset /\ shown = Unset
    /\ otherDF = Unset
    /\ files = Unset /\ job = Unset /\ partitions = Unset /\ parquetDF = Unset
    /\ out = <<>>
    /\ input = Unset /\ df = Unset /\ prev = Unset /\ hist = <<>>

\* spark = SparkSession.builder.appName("PySparkTutorial").getOrCreate()
\* The session that exists if it has not been stopped, else a new one.
GetOrCreateCell ==
    /\ IF spark # Unset /\ spark \notin stopped
       THEN UNCHANGED spark
       ELSE /\ Cardinality(stopped) < MaxSessions
            /\ spark' = Session(Cardinality(stopped) + 1)
    /\ ran' = Outcome("getOrCreate")
    /\ UNCHANGED <<stopped, frames, castVars, out, bookVars, planVars, writeVars, tabVars>>

\* df = spark.createDataFrame([('Jack', 42), ...], ['name', 'age'])
CreateDataFrameCell ==
    /\ ran' = Outcome("createDataFrame")
    /\ frames' = IF Succeeds("createDataFrame")
                 THEN [frames EXCEPT !.df = [session |-> spark, ages |-> PeopleAges]]
                 ELSE frames
    /\ UNCHANGED <<spark, stopped, castVars, out, bookVars, planVars, writeVars, tabVars>>

\* df.printSchema()
PrintSchemaCell ==
    /\ ran' = Outcome("printSchema")
    /\ UNCHANGED <<spark, stopped, frames, castVars, out, bookVars, planVars,
                   writeVars, tabVars>>

\* df.show(2)
ShowCell ==
    /\ ran' = Outcome("show")
    /\ shown' = IF Succeeds("show") THEN SubSeq(frames.df.ages, 1, 2) ELSE shown
    /\ UNCHANGED <<spark, stopped, frames, castVars, out, csvPolicy, csvClaims, pc,
                   policyDF, claimsDF, combinedDF, summary, sqlDF, planVars, writeVars, tabVars>>

\* over40 = df.filter(df.age > 40)
FilterCell ==
    /\ ran' = Outcome("filter")
    /\ frames' = IF Succeeds("filter")
                 THEN [frames EXCEPT !.over40 =
                          [session |-> frames.df.session,
                           ages |-> SelectSeq(frames.df.ages, LAMBDA age : age > 40)]]
                 ELSE frames
    /\ UNCHANGED <<spark, stopped, castVars, out, bookVars, planVars, writeVars, tabVars>>

\* over40.show()
ShowOver40Cell ==
    /\ ran' = Outcome("over40.show")
    /\ shown' = IF Succeeds("over40.show") THEN frames.over40.ages ELSE shown
    /\ UNCHANGED <<spark, stopped, frames, castVars, out, csvPolicy, csvClaims, pc,
                   policyDF, claimsDF, combinedDF, summary, sqlDF, planVars, writeVars, tabVars>>

\* rows = over40.count(); print(rows)
CountCell ==
    /\ ran' = Outcome("count")
    /\ shown' = IF Succeeds("count") THEN Len(frames.over40.ages) ELSE shown
    /\ UNCHANGED <<spark, stopped, frames, castVars, out, csvPolicy, csvClaims, pc,
                   policyDF, claimsDF, combinedDF, summary, sqlDF, planVars, writeVars, tabVars>>

\* spark.stop()
StopCell ==
    /\ ran' = Outcome("stop")
    /\ stopped' = IF Defined("stop") THEN stopped \cup {spark} ELSE stopped
    /\ UNCHANGED <<spark, frames, castVars, out, bookVars, planVars, writeVars, tabVars>>

IntroNext ==
    \/ GetOrCreateCell
    \/ CreateDataFrameCell
    \/ PrintSchemaCell
    \/ ShowCell
    \/ FilterCell
    \/ ShowOver40Cell
    \/ CountCell
    \/ StopCell

SpecIntro == IntroInit /\ [][IntroNext]_vars

\* The variable spark holds a session that has not been stopped.
Active == spark # Unset /\ spark \notin stopped

Named(d, name) == Cardinality({k \in 1..Len(d.cols) : d.cols[k] = name})

\* The row without the cell at position i.
Without(row, i) == SubSeq(row, 1, i - 1) \o SubSeq(row, i + 1, Len(row))

\* d is the join output J without the policy column of the claims side: the
\* other columns in their order, one column policy, and in every row the cells
\* of J's row but the one of the claims side, so the policy of the policy side.
DroppedClaimsPolicy(d, J, at) ==
    /\ J.cols[1] = c_policy /\ J.cols[at] = c_policy /\ Named(J, c_policy) = 2
    /\ d.cols = Without(J.cols, at)
    /\ d.types = Without(J.types, at)
    /\ Named(d, c_policy) = 1
    /\ Len(d.rows) = Len(J.rows)
    /\ \A r \in 1..Len(d.rows) :
          /\ d.rows[r] = Without(J.rows[r], at)
          /\ Cell(d, r, c_policy) = J.rows[r][1]

\* C18: the join output has the policy column of each side with the value of
\* that side; after drop(claimsDF.policy) one column policy is left, it holds
\* the value of the policy side in every row, in inner and in left mode, and
\* every other column is still there.
DropKeepsPolicySide ==
    /\ pc = "join_drop" =>
          /\ combinedDF.cols = JoinNames \o ClaimCols
          /\ \A r \in 1..Len(combinedDF.rows) :
                /\ \E p \in 1..Len(policyDF.rows) :
                      SubSeq(combinedDF.rows[r], 1, Len(JoinNames)) =
                          SelectNames(policyDF, JoinNames).rows[p]
                /\ \E c \in 1..Len(claimsDF.rows) :
                      SubSeq(combinedDF.rows[r], Len(JoinNames) + 1,
                             Len(JoinNames) + Len(ClaimCols)) = claimsDF.rows[c]
    /\ pc = "join_select" =>
          DroppedClaimsPolicy(combinedDF,
                              Join(SelectNames(policyDF, JoinNames), claimsDF, "inner"),
                              Len(JoinNames) + 1)
    /\ pc = "window" =>
          LET J == Join(SelectNames(policyDF, JoinLeftNames), claimsDF, "left")
              D == DropColumn(J, Len(JoinLeftNames) + 1)
          IN  /\ DroppedClaimsPolicy(D, J, Len(JoinLeftNames) + 1)
              /\ shown = SelectNames(D, ShownNames)
              /\ Named(shown, c_policy) = 1
              /\ \A r \in 1..Len(shown.rows) :
                    /\ Cell(shown, r, c_policy) = J.rows[r][1]
                    /\ \E p \in 1..Len(policyDF.rows) :
                          Cell(shown, r, c_policy) = Cell(policyDF, p, c_policy)

\* The left join of a policy row no claim matches: the claims side has no
\* policy for it and the column that is left has the policy of the policy row.
DropKeepsPolicySideWitness ==
    /\ pc = "window"
    /\ \E r \in 1..Len(shown.rows) :
          /\ IsNull(Cell(shown, r, c_incident_date))
          /\ IsNull(Join(SelectNames(policyDF, JoinLeftNames), claimsDF, "left")
                        .rows[r][Len(JoinLeftNames) + 1])
          /\ ~IsNull(Cell(shown, r, c_policy))
    /\ \E r \in 1..Len(shown.rows) : ~IsNull(Cell(shown, r, c_incident_date))

(***************************************************************************)
(* Column names of the tables of the notebook (checked under Spec).        *)
(***************************************************************************)
\* The variable holds a table.
IsTable(x) == x # Unset /\ x # None

\* The tables the variables of the notebook hold, the displayed one included.
Tables ==
    {t \in {csvPolicy, csvClaims, policyDF, claimsDF, combinedDF, summary, sqlDF, shown} :
        IsTable(t)}

\* No two columns of d have one name.
NamesDistinct(d) == \A i, j \in 1..Len(d.cols) : d.cols[i] = d.cols[j] => i = j

\* C21 as stated: every table a cell has produced has pairwise distinct column
\* names.
AllNamesDistinct == \A t \in Tables : NamesDistinct(t)

\* What holds: the tables have distinct names but for the join output before
\* the drop, which has policy twice and every other name once, and the renamed
\* crosstab, which has status twice when a make is named so.
NamesDistinctButJoin ==
    /\ \A t \in Tables \ {shown} : t # combinedDF \/ pc # "join_drop" => NamesDistinct(t)
    /\ pc = "join_drop" =>
          /\ shown = combinedDF
          /\ Named(combinedDF, c_policy) = 2
          /\ \A k \in 1..Len(combinedDF.cols) :
                combinedDF.cols[k] # c_policy => Named(combinedDF, combinedDF.cols[k]) = 1
    /\ IsTable(shown) /\ pc \notin {"join_drop", "sql"} => NamesDistinct(shown)
    /\ pc = "sql" =>
          \A k \in 1..Len(shown.cols) :
              shown.cols[k] # c_status => Named(shown, shown.cols[k]) = 1

\* The inner join has run: its output has two columns policy.
TwoPolicyColumns ==
    /\ pc = "join_drop"
    /\ IsTable(combinedDF)
    /\ Len(combinedDF.rows) > 0
    /\ combinedDF.cols[1] = c_policy
    /\ combinedDF.cols[Len(JoinNames) + 1] = c_policy

(***************************************************************************)
(* Columns that are given one name (checked under SpecPlan).               *)
(***************************************************************************)
\* otherDF is the table the select cell built.
HasOtherSelect == pc \in {"plan_assert", "plan_fix_types", "SparkUpgradeException"}

Changed(i) ==
    \/ df.types[i] # prev.types[i]
    \/ \E r \in 1..Len(prev.rows) : df.rows[r][i] # prev.rows[r][i]

\* One line for each column of the argument that satisfies P, in column order:
\* "integer" for an allowlisted column, "date" for another.
NotesWhere(P(_)) ==
    LET at == SelectSeq([i \in 1..Len(prev.cols) |-> i], P)
    IN  [k \in 1..Len(at) |->
            Note(IF prev.cols[at[k]] \in intcols THEN "integer" ELSE "date",
                 prev.cols[at[k]])]

Degraded ==
    {c \in (1..Len(prev.rows)) \X (1..Len(prev.cols)) :
        BadCell(LastOp, prev, c[1], c[2]) /\ df.rows[c[1]][c[2]] = Null}

\* The lines the function prints for d.
NotesOf(op, d) ==
    IF op = "fix_types" THEN FixTypesNotes(d, 1) ELSE FixDatesNotes(d, 1)

\* d with a well-formed text in place of every malformed one.
WellFormed(op, d) ==
    [d EXCEPT !.rows = [r \in 1..Len(d.rows) |-> [i \in 1..Len(d.cols) |->
        IF BadCell(op, d, r, i) THEN GoodText ELSE d.rows[r][i]]]]

\* C24 as stated: the stage prints the number of cells it degraded to NULL, 0
\* exactly when no cell was malformed; so what it prints for a table with a
\* degraded cell differs from what it prints for the same table with
\* well-formed cells.
NullCountSurfaced ==
    Len(hist) = 1 /\ Degraded # {} =>
        out # NotesOf(LastOp, WellFormed(LastOp, prev))

\* C24, what holds: the stage prints the NOTE lines of the columns and nothing
\* else, the same lines whether or not a cell was malformed.
OutputIgnoresCells ==
    Len(hist) = 1 =>
        /\ out = NotesOf(LastOp, WellFormed(LastOp, prev))
        /\ \A k \in 1..Len(out) :
              /\ out[k].kind \in {"integer", "date"}
              /\ \E i \in 1..Len(prev.cols) : out[k].column = prev.cols[i]

\* fix_types degraded a malformed cell to NULL and printed what it prints for
\* well-formed cells.
DegradedUnreported ==
    /\ hist = <<"fix_types">>
    /\ Degraded # {}
    /\ out # <<>>
    /\ out = NotesOf("fix_types", WellFormed("fix_types", prev))

(***************************************************************************)
(* The window columns, partition by partition (checked under Spec).        *)
(***************************************************************************)
\* The two window columns of the window cell.
Windowed(d) ==
    WithRunningSum(WithRank(d, c_policy_term, c_policy, c_start_date),
                   c_total_premium, c_premium, c_policy, c_start_date)

\* policyDF without the three columns the window cell added.
WindowSource ==
    SelectNames(policyDF, SubSeq(policyDF.cols, 1, Len(policyDF.cols) - 3))

\* Other orders of the rows: reversed, two neighbours exchanged, the first k
\* rows moved to the end (every order of up to three rows is among them).
Rearrangements(rows) ==
    LET n == Len(rows)
    IN  {rows, Reverse(rows)}
            \cup {[i \in 1..n |-> IF i = k THEN rows[k + 1]
                                  ELSE IF i = k + 1 THEN rows[k] ELSE rows[i]] :
                      k \in 1..(n - 1)}
            \cup {[i \in 1..n |-> rows[((i + k - 1) % n) + 1]] : k \in 1..(n - 1)}

\* The rows with the policy key.
PartitionOf(rows, b, key) == SelectSeq(rows, LAMBDA row : row[b] = key)

\* C25: policy_term and total_premium of a row are determined by the rows of
\* its own policy: the window columns computed on the rows of one policy alone,
\* taken from the source in any order, are those the rows of that policy have
\* in policyDF, and the whole source in any order gives the rows of policyDF.
WindowByPartition ==
    AfterWindow =>
        LET src == WindowSource
            b == ColIndex(src, c_policy)
            got == SelectNames(policyDF, src.cols \o <<c_policy_term, c_total_premium>>)
        IN  \A rows \in Rearrangements(src.rows) :
                /\ SameRows(Windowed([src EXCEPT !.rows = rows]).rows, got.rows)
                /\ \A r \in 1..Len(rows) :
                      SameRows(Windowed([src EXCEPT !.rows =
                                            PartitionOf(rows, b, rows[r][b])]).rows,
                               PartitionOf(got.rows, b, rows[r][b]))

\* The window cell ran on a file that holds a row of policy 2 between two rows
\* of policy 1, the later term first: the terms of policy 1 have ranks 1 and 2
\* and running sums 10 and 30, the row of policy 2 rank 1 and sum 40.
WindowInterleavedWitness ==
    /\ AfterWindow
    /\ Len(csvPolicy.rows) = 3
    /\ [r \in 1..3 |-> csvPolicy.rows[r][ColIndex(csvPolicy, c_policy)]]
           = <<StrCell(Car(1)), StrCell(Car(2)), StrCell(Car(1))>>
    /\ \A x \in {<<1, 20200101, 1, 10>>, <<1, 20200601, 2, 30>>, <<2, 20200301, 1, 40>>} :
          \E r \in 1..Len(policyDF.rows) :
              /\ Cell(policyDF, r, c_policy) = StrCell(Car(x[1]))
              /\ Cell(policyDF, r, c_start_date) = DateCell(x[2])
              /\ Cell(policyDF, r, c_policy_term) = IntCell(x[3])
              /\ Cell(policyDF, r, c_total_premium) = LongCell(x[4])

(***************************************************************************)
(* status before and after fix_dates (checked under Spec).                 *)
(***************************************************************************)
\* The states in which policyDF has its status column and its parsed dates, and
\* still has its rows in the order of the file.
HasParsedDates == pc \in {"join", "join_drop", "join_select", "join_left", "window"}

\* The status the comparison gives on the parsed dates of row r.
StatusOfParsed(r) ==
    StatusWhen(Cell(policyDF, r, c_start_date), Cell(policyDF, r, c_inception_date))

\* C26 as stated: the status of every row, derived from the texts of the file
\* before fix_dates, is the status the comparison gives on the parsed dates.
StatusSameAfterParsing ==
    HasParsedDates =>
        \A r \in 1..Len(policyDF.rows) :
            Cell(policyDF, r, c_status) = StatusOfParsed(r)

\* C26, what holds: the two agree on every row but those whose start_date and
\* inception_date are the same text that is no date; such a row is "New
\* Business" by its texts and "Renewal" by its parsed dates, which are NULL.
StatusSameButUnread ==
    HasParsedDates =>
        \A r \in 1..Len(policyDF.rows) :
            IF /\ ~IsNull(Cell(csvPolicy, r, c_start_date))
               /\ Cell(csvPolicy, r, c_start_date) = Cell(csvPolicy, r, c_inception_date)
               /\ IsNull(Cell(policyDF, r, c_start_date))
            THEN /\ Cell(policyDF, r, c_status) = StrCell(NewBusiness)
                 /\ StatusOfParsed(r) = StrCell(Renewal)
            ELSE Cell(policyDF, r, c_status) = StatusOfParsed(r)

\* fix_dates ran on a row whose start_date and inception_date are both the text
\* n/a: its status is "New Business", its parsed dates give "Renewal".
StatusUnreadWitness ==
    /\ HasParsedDates
    /\ \E r \in 1..Len(policyDF.rows) :
          /\ Cell(csvPolicy, r, c_start_date) = StrCell(<<"n", "/", "a">>)
          /\ Cell(csvPolicy, r, c_inception_date) = StrCell(<<"n", "/", "a">>)
          /\ IsNull(Cell(policyDF, r, c_start_date))
          /\ IsNull(Cell(policyDF, r, c_inception_date))
          /\ Cell(policyDF, r, c_status) = StrCell(NewBusiness)
          /\ StatusOfParsed(r) = StrCell(Renewal)

(***************************************************************************)
(* The left join and the inner join (checked under Spec).                  *)
(***************************************************************************)
\* Whether a row of the projected join output carries a claim: its claim
\* columns incident_date and cost are not both NULL.
CarriesClaim(row) == ~(IsNull(row[5]) /\ IsNull(row[6]))

\* The policy rows that no claim row matches.
Unmatched ==
    {i \in 1..Len(policyDF.rows) :
        \A j \in 1..Len(claimsDF.rows) :
            ~InTerm(policyDF, policyDF.rows[i], claimsDF, claimsDF.rows[j])}

\* C27: the table of the inner-join cell is the projected inner join, and the
\* rows of the left-join output that carry a claim are exactly its rows, as
\* often as it has them; the left join has as many rows as the inner join and
\* the policy rows no claim matches together.
LeftExtendsInner ==
    /\ pc = "join_left" => combinedDF = InnerProjected
    /\ pc = "window" =>
          /\ SameRows(SelectSeq(shown.rows, CarriesClaim), InnerProjected.rows)
          /\ Len(shown.rows) = Len(InnerProjected.rows) + Cardinality(Unmatched)

\* The left join ran where the inner join has a row, a policy row has no claim
\* and the two outputs differ.
LeftExtendsInnerWitness ==
    /\ pc = "window"
    /\ InnerProjected.rows # <<>>
    /\ Unmatched # {}
    /\ Len(shown.rows) > Len(InnerProjected.rows)
    /\ \E r \in 1..Len(shown.rows) : CarriesClaim(shown.rows[r])

(***************************************************************************)
(* fix_types and the explicit casts (checked under SpecPlan).              *)
(***************************************************************************)
\* fix_types applied to the table read from claims.csv.
ClaimsFixed == fix_types(csvClaims)

\* C28 as stated: for the two example files, fix_types alone gives the table
\* that the explicit integer casts followed by fix_dates give - policyDF for
\* policy.csv, claimsDF for claims.csv.
FixTypesSameAsCasts ==
    pc = "plan_done" /\ IsExample =>
        /\ otherDF = policyDF
        /\ ClaimsFixed = claimsDF

\* C28, what holds: for policy.csv the two tables are the same; for claims.csv
\* they have the same dates, but fix_types leaves cost a string column with
\* the text of the file, where the explicit cast gives an integer column.
FixTypesButCost ==
    pc = "plan_done" =>
        /\ otherDF = policyDF
        /\ \A i \in 1..Len(policyDF.cols) :
              policyDF.cols[i] \in intcols \/ IsDateName(policyDF.cols[i]) =>
                  otherDF.types[i] \in {"int", "date"}
        /\ ClaimsFixed.cols = claimsDF.cols
        /\ DType(ClaimsFixed, c_cost) = "string"
        /\ DType(claimsDF, c_cost) = "int"
        /\ \A r \in 1..Len(claimsDF.rows) :
              Cell(ClaimsFixed, r, c_cost) = Cell(csvClaims, r, c_cost)
        /\ WithColumn(ClaimsFixed, c_cost, Cast(c_cost)) = claimsDF

\* fix_types ran on the example policy.csv; applied to the example claims.csv
\* it leaves the cost 5000 of the first claim a text.
CostStaysTextWitness ==
    /\ pc = "plan_done"
    /\ IsExample
    /\ otherDF = policyDF
    /\ Cell(ClaimsFixed, 1, c_cost) = StrCell(Dec(5000, 1))
    /\ Cell(claimsDF, 1, c_cost) = IntCell(5000)

(***************************************************************************)
(* What the variables refer to after a cell displays (checked under Spec). *)
(***************************************************************************)
\* C29 as stated: after the left-join cell combinedDF is the table the cell
\* built and displayed, and after the cross-tab rename cell ctabDF is.
VariablesKeepTables ==
    /\ pc = "window" => combinedDF = shown
    /\ pc = "sql" => ctabDF = shown

\* C29, what holds: a cell that displays in a statement of its own leaves its
\* variable the displayed table (the first rows of it for show(5)); the
\* left-join cell and the cross-tab rename cell, which end their assignment in
\* .show(), display a table and leave combinedDF and ctabDF None, and nothing
\* later sets them.
ShowAssignsNone ==
    /\ pc = "join_drop" => combinedDF = shown
    /\ pc \in {"join_select", "join_left"} => shown = ShowRows(combinedDF, 5)
    /\ pc = "crosstab" => summary = shown
    /\ pc = "window" => IsTable(shown) /\ combinedDF = None
    /\ pc = "sql" => IsTable(shown) /\ ctabDF = None
    /\ pc \in {"summary", "crosstab", "ctab", "sql", "done"} => combinedDF = None
    /\ pc = "done" => ctabDF = None

\* Both cells have run and displayed tables with rows; neither variable is a
\* table.
NoneAfterShowWitness ==
    /\ pc = "sql"
    /\ IsTable(shown) /\ shown.rows # <<>>
    /\ ~IsTable(combinedDF) /\ combinedDF = None
    /\ ~IsTable(ctabDF) /\ ctabDF = None

(***************************************************************************)
(* The sums of the crosstab (checked under Spec).                          *)
(***************************************************************************)
\* The sum of the counts in row k of the crosstab, in its column n, and in all
\* of its cells.
CrosstabRowSum(k) == SumOver(ValueColumns, [n \in ValueColumns |-> shown.rows[k][n].v])

CrosstabColumnSum(n) ==
    SumOver(1..Len(shown.rows), [k \in 1..Len(shown.rows) |-> shown.rows[k][n].v])

CrosstabTotal ==
    SumOver(1..Len(shown.rows), [k \in 1..Len(shown.rows) |-> CrosstabRowSum(k)])

\* The rows of policyDF with the make m.
WithMake(m) == {k \in 1..Len(policyDF.rows) : Cell(policyDF, k, c_make) = m}

\* Whether no two makes of the source have the same text.
MakesApartByText ==
    \A m \in MakeValues : \A x \in MakeValues :
        CleanElement(m) = CleanElement(x) => m = x

\* The three sums for the source in policyDF.
CrosstabSumsHold ==
    /\ CrosstabTotal = Len(policyDF.rows)
    /\ \A k \in 1..Len(shown.rows) :
          CrosstabRowSum(k) = Cardinality(WithStatus(shown.rows[k][1]))
    /\ \A m \in MakeValues : \A n \in ValueColumns :
          shown.cols[n] = CleanElement(m) =>
              CrosstabColumnSum(n) = Cardinality(WithMake(m))

\* C30 as stated: for every source the cells of the crosstab sum to the number
\* of source rows, the cells of a status row to the number of rows with that
\* status, the cells of a make column to the number of rows with that make.
CrosstabSums ==
    HasCrosstab => CrosstabSumsHold

\* C30, what holds: the three sums are those of the source whenever no two
\* makes of the source have the same text, as on the example data (16 rows, 11
\* New Business, 5 Renewal); for any source no sum exceeds the number of rows
\* it stands for.
CrosstabSumsByText ==
    HasCrosstab =>
        /\ MakesApartByText => CrosstabSumsHold
        /\ CrosstabTotal <= Len(policyDF.rows)
        /\ \A k \in 1..Len(shown.rows) :
              CrosstabRowSum(k) <= Cardinality(WithStatus(shown.rows[k][1]))
        /\ IsExample =>
              /\ MakesApartByText
              /\ CrosstabTotal = 16
              /\ \E k \in 1..Len(shown.rows) :
                    shown.rows[k][1] = StrCell(NewBusiness) /\ CrosstabRowSum(k) = 11
              /\ \E k \in 1..Len(shown.rows) :
                    shown.rows[k][1] = StrCell(Renewal) /\ CrosstabRowSum(k) = 5

\* A crosstab of three rows, two without make and one of make "null": its
\* cells sum to fewer than three.
CrosstabLosesRows ==
    /\ HasCrosstab
    /\ Len(policyDF.rows) = 3
    /\ PairCount(StrCell(NewBusiness), Null) = 2
    /\ PairCount(StrCell(NewBusiness), StrCell(NullText)) = 1
    /\ CrosstabTotal < 3

====
